---- MODULE Spec2Model ----
(***************************************************************************)
(* Model of the table-ordering application: the dual-backend persistence   *)
(* service (StorageService), its local fallback store, and the customer    *)
(* view's table-session detection (ClientView), and the daily report of    *)
(* GeminiService.                                                          *)
(*                                                                         *)
(* Local mode: every StorageService operation runs synchronously on the    *)
(* JSON texts kept under the storage keys, so each is one atomic action.   *)
(* Cloud mode: every awaited Firestore request is one atomic step at the   *)
(* server; a call made of several requests is a sequence of steps that     *)
(* interleaves with the steps of other clients' calls.                     *)
(*                                                                         *)
(* A product is modelled by id, name, price and stock, and under SpecMerge *)
(* by its description and image as well; an order is modelled by id,       *)
(* tableId, status, timestamp, items, total and observation.  Prices are   *)
(* whole currency units.                                                   *)
(*                                                                         *)
(* Specifications, all over the same state and the same actions:           *)
(*   SpecStock       products and orders, both backends                    *)
(*   SpecStockLocal  products and orders, local backend                    *)
(*   SpecTotals      order totals under price changes, both backends       *)
(*   SpecSave        saveProduct by name, two clients                      *)
(*   SpecSession     table sessions and the customer view, both backends   *)
(*   SpecFinalize    finalizeTable with no other write during a call       *)
(*   SpecSubscribe   the view's subscriptions and their handles            *)
(*   SpecConfig      init, saveConfig and clearConfig with a mounted view  *)
(*   SpecBoth        one series of calls on both backends side by side     *)
(*   SpecStorage     safeStorage over a failing localStorage               *)
(*   SpecReport      generateDailyReport and the external AI service       *)
(*   SpecSeed        the starter catalog in local mode                     *)
(*   SpecMerge       saveProduct merging by name, one client               *)
(*   SpecFault       local subscriptions over unreadable stored texts      *)
(*   SpecClose       the view kept subscribed while tables are closed      *)
(*   SpecTable       the view's table changing while it is mounted         *)
(*   SpecRace        a merging save racing an order, cloud backend         *)
(*   SpecCart        the view's cart and placeOrder, both backends         *)
(*   SpecReject      createOrder with the order write rejected             *)
(*   SpecBill        the view's bill after finalizeTable                   *)
(***************************************************************************)
EXTENDS Integers, Sequences, FiniteSets, TLC

\* ------------------------------------------------------------------ bounds
MaxStock  == 2   \* largest stock a caller passes to saveProduct
MaxQty    == 2   \* largest quantity of one line item
MaxOrders == 2   \* orders ever created
MaxStored == 3   \* largest stock a merge or a restock may build up
MaxProducts == 2 \* product documents addDoc ever creates
MaxEffects == 2  \* runs of the customer view's subscription effect
MaxRequests == 3 \* requests sent to the external AI service
MaxCart   == 2   \* largest quantity of one cart item
MaxPlaced == 1   \* orders placed from the customer view's cart

\* ------------------------------------------------------------------ enums
PENDING   == "PENDING"
PREPARING == "PREPARING"
DELIVERED == "DELIVERED"
PAID      == "PAID"
CANCELED  == "CANCELED"
OrderStatus == {PENDING, PREPARING, DELIVERED, PAID, CANCELED}

OPEN              == "OPEN"
CLOSING_REQUESTED == "CLOSING_REQUESTED"

PaymentMethods == {"PIX", "CASH"}
Tables         == {1, 2}

\* ------------------------------------------------------------------ inputs
Stocks     == 0..MaxStock
Quantities == 1..MaxQty

INITIAL_PRODUCTS ==
  << [id |-> "1", name |-> "Cerveja Gelada 600ml", price |-> 15, stock |-> 48],
     [id |-> "2", name |-> "Agua de Coco",         price |-> 8,  stock |-> 20],
     [id |-> "3", name |-> "Isca de Peixe",        price |-> 45, stock |-> 10],
     [id |-> "4", name |-> "Batata Frita",         price |-> 25, stock |-> 15] >>

\* The optional observation argument of createOrder, when left out.
Undefined    == "undefined"
Observations == {Undefined}

\* ------------------------------------------------------------------ helpers
Max(a, b) == IF a >= b THEN a ELSE b

Range(seq) == {seq[i] : i \in 1..Len(seq)}

\* Array.prototype.findIndex and find, given the indices at which the test
\* holds: the first of them, 1-based; 0 stands for JavaScript's -1.
FindIndex(hits) ==
  IF hits = {} THEN 0 ELSE CHOOSE i \in hits : \A j \in hits : i <= j

\* A storage key holds no value (getItem gives null) or one JSON text.
Null             == <<>>
JSONstringify(v) == <<v>>
JSONparse(text)  == text[1]
OrElse(text, default) == IF text = Null THEN default ELSE text

\* A JavaScript object used as a map: a function on the keys it holds.
EmptyMap        == <<>>
MapPut(m, k, v) == (k :> v) @@ m
MapDelete(m, k) == [j \in (DOMAIN m) \ {k} |-> m[j]]
MapHas(m, k)    == k \in DOMAIN m

\* tableId.toString(), and the key a number becomes when it indexes an object.
TableKey(tableId) == ToString(tableId)

\* ----------------------------------------------------------- geminiService
\* The two fixed texts generateDailyReport can return.
ConfigIncomplete ==
  "Configuracao de IA incompleta. Verifique se a variavel de ambiente API_KEY foi definida no painel da Vercel."
GenerationFailed ==
  "Erro ao gerar relatorio inteligente. Verifique a conexao ou a chave de API."

\* Sales data JSON.stringify throws on (an object that refers to itself).
Circular == "[Circular]"

\* const ai = apiKey ? new GoogleGenAI({ apiKey }) : null
Ai(key) == IF key # "" THEN <<[apiKey |-> key]>> ELSE Null

\* The prompt built from the sales data.
Prompt(salesData) == "Dados de Vendas: " \o JSONstringify(salesData)[1]

\* How a call of generateDailyReport ends: it returns a value or raises, and
\* it has or has not sent a request.  outcome is what the external service
\* does with a request: it rejects, or it answers with a text (Undefined when
\* the answer holds no text).
\* Fault: the request is built and sent outside the try block.
GenerateDailyReport_NoCatch(key, salesData, outcome) ==
  IF Ai(key) = Null \/ key = ""
    THEN [raised |-> FALSE, value |-> ConfigIncomplete, sent |-> FALSE]
  ELSE IF salesData = Circular
    THEN [raised |-> TRUE, value |-> Undefined, sent |-> FALSE]
  ELSE IF outcome.rejects
    THEN [raised |-> TRUE, value |-> Undefined, sent |-> TRUE]
  ELSE [raised |-> FALSE, value |-> outcome.text, sent |-> TRUE]

\* GeminiService.generateDailyReport(salesData).
GenerateDailyReport(key, salesData, outcome) ==
  IF Ai(key) = Null \/ key = ""
    THEN [raised |-> FALSE, value |-> ConfigIncomplete, sent |-> FALSE]
  ELSE IF salesData = Circular
    THEN [raised |-> FALSE, value |-> GenerationFailed, sent |-> FALSE]
  ELSE IF outcome.rejects
    THEN [raised |-> FALSE, value |-> GenerationFailed, sent |-> TRUE]
  ELSE [raised |-> FALSE, value |-> outcome.text, sent |-> TRUE]

\* ------------------------------------------------------------- safeStorage
\* localStorage and memoryStore are maps from key to text; a call on
\* localStorage returns (ok) or throws.

\* safeStorage.getItem(key): Null stands for null.
SafeGetItem(disk, memory, key, ok) ==
  LET item     == IF MapHas(disk, key) THEN <<disk[key]>> ELSE Null
      fallback == IF MapHas(memory, key) /\ memory[key] # ""
                    THEN <<memory[key]>> ELSE Null
  IN  IF ok
        THEN IF item = Null /\ MapHas(memory, key) THEN fallback ELSE item
        ELSE fallback

\* safeStorage.setItem(key, value): what memoryStore and localStorage become.
SafeSetItemMemory(memory, key, value) == MapPut(memory, key, value)
SafeSetItemDisk(disk, key, value, ok) ==
  IF ok THEN MapPut(disk, key, value) ELSE disk

\* safeStorage.removeItem(key): what memoryStore and localStorage become.
SafeRemoveItemMemory(memory, key) == MapDelete(memory, key)
SafeRemoveItemDisk(disk, key, ok) ==
  IF ok THEN MapDelete(disk, key) ELSE disk

\* ------------------------------------------------------------ configuration
\* An optional argument or variable is Null when it is undefined and <<v>>
\* when it holds v.

\* String.prototype.includes.
Includes(str, sub) ==
  \E i \in 1..(Len(str) - Len(sub) + 1) : SubSeq(str, i, i + Len(sub) - 1) = sub

\* A stored text that is not JSON: JSON.parse throws on it.
MalformedText == <<"{", "apiKey">>
Parses(text)  == Len(text) = 1

\* Fault: the compiled-in configuration is taken before the caller's.
InitFixedConfig_First(config, compiled) ==
  IF compiled.apiKey # "" /\ ~Includes(compiled.apiKey, "COLAR_")
    THEN <<compiled>> ELSE config

\* init, step 1: without a config from the caller, the compiled-in one is
\* taken when its key is filled in.
InitFixedConfig(config, compiled) ==
  IF config = Null /\ compiled.apiKey # "" /\ ~Includes(compiled.apiKey, "COLAR_")
    THEN <<compiled>> ELSE config

\* init, step 2: still without a config, the stored one is taken when there
\* is one and it parses.
InitStoredConfig(config, storedConfig) ==
  IF config = Null /\ storedConfig # Null /\ Parses(storedConfig)
    THEN <<JSONparse(storedConfig)>> ELSE config

\* init: the configuration it goes on with.
InitConfig(config, compiled, storedConfig) ==
  InitStoredConfig(InitFixedConfig(config, compiled), storedConfig)

\* init, step 3: whether the handle is built; built tells whether
\* initializeApp and getFirestore return rather than throw.
InitBuilds(config, built) ==
  config # Null /\ config[1].apiKey # "" /\ built

\* ------------------------------------------------- local mode: operations
\* Each operator takes the JSON texts of the keys it reads and gives the
\* texts it writes.

\* subscribeProducts, local fetch: the list handed to the callback.
LocalFetchProductsSnapshot(stored) ==
  IF stored = Null THEN INITIAL_PRODUCTS ELSE JSONparse(stored)

\* Fault: an empty stored list is taken for no stored data.
LocalFetchProductsStore_SeedsEmpty(stored) ==
  IF stored = Null \/ JSONparse(stored) = <<>>
    THEN JSONstringify(INITIAL_PRODUCTS) ELSE stored

\* subscribeProducts, local fetch: the PRODUCTS text after the fetch.
LocalFetchProductsStore(stored) ==
  IF stored = Null THEN JSONstringify(INITIAL_PRODUCTS) ELSE stored

\* subscribeOrders, local fetch: the orders handed to the callback.
LocalFetchOrdersSnapshot(stored) ==
  Range(IF stored # Null THEN JSONparse(stored) ELSE <<>>)

\* subscribeTables, local fetch: the map handed to the callback.
LocalFetchTablesSnapshot(stored) ==
  JSONparse(OrElse(stored, JSONstringify(EmptyMap)))

\* saveProduct, local branch.
LocalSaveProduct(stored, product) ==
  LET products      == JSONparse(OrElse(stored, JSONstringify(<<>>)))
      existingIndex == FindIndex({i \in DOMAIN products :
                                    products[i].id = product.id})
      nameIndex     == FindIndex({i \in DOMAIN products :
                                    /\ products[i].name = product.name
                                    /\ products[i].id # product.id})
      saved ==
        IF existingIndex > 0
          THEN [products EXCEPT ![existingIndex] = product]
        ELSE IF nameIndex > 0
          THEN [products EXCEPT ![nameIndex].stock = @ + product.stock,
                                ![nameIndex].price = product.price]
        ELSE Append(products, product)
  IN  JSONstringify(saved)

\* deleteProduct, local branch.
LocalDeleteProduct(stored, id) ==
  LET products == JSONparse(OrElse(stored, JSONstringify(<<>>)))
  IN  JSONstringify(SelectSeq(products, LAMBDA p : p.id # id))

\* Fault: the quantity left out of the total.
RECURSIVE OrderTotal_IgnoresQuantity(_)
OrderTotal_IgnoresQuantity(items) ==
  IF items = <<>> THEN 0
  ELSE OrderTotal_IgnoresQuantity(SubSeq(items, 1, Len(items) - 1))
       + items[Len(items)].product.price

\* createOrder: items.reduce(acc + price * quantity, 0).
RECURSIVE OrderTotal(_)
OrderTotal(items) ==
  IF items = <<>> THEN 0
  ELSE OrderTotal(SubSeq(items, 1, Len(items) - 1))
       + items[Len(items)].product.price * items[Len(items)].quantity

\* createOrder: the line-item snapshots copied from the supplied products.
OrderItems(items) ==
  [i \in 1..Len(items) |->
     [productId |-> items[i].product.id,
      name      |-> items[i].product.name,
      price     |-> items[i].product.price,
      quantity  |-> items[i].quantity]]

\* createOrder: orderData, built before either backend is touched.
OrderData(tableId, items, observation, clock) ==
  [tableId     |-> tableId,
   status      |-> PENDING,
   timestamp   |-> clock,
   items       |-> OrderItems(items),
   total       |-> OrderTotal(items),
   observation |-> IF observation = Undefined THEN "" ELSE observation]

\* Fault: the floor at zero left out of the local decrement.
LocalDecrement_NoFloor(stock, quantity) == stock - quantity

\* createOrder, local branch: the stock of one product after one line item.
LocalDecrement(stock, quantity) == Max(0, stock - quantity)

\* createOrder, local branch: items.forEach over the parsed product list.
RECURSIVE LocalDecrementAll(_, _)
LocalDecrementAll(products, items) ==
  IF items = <<>> THEN products
  ELSE LET item   == Head(items)
           pIndex == FindIndex({i \in DOMAIN products :
                                  products[i].id = item.product.id})
           next   == IF pIndex > 0
                       THEN [products EXCEPT ![pIndex].stock =
                               LocalDecrement(@, item.quantity)]
                       ELSE products
       IN  LocalDecrementAll(next, Tail(items))

\* createOrder, local branch: the PRODUCTS text written.
LocalCreateOrderProducts(stored, items) ==
  JSONstringify(
    LocalDecrementAll(JSONparse(OrElse(stored, JSONstringify(<<>>))), items))

\* Fault: the stored orders are not read back, the new order replaces them.
LocalCreateOrderOrders_Overwrite(stored, orderData, clock) ==
  JSONstringify(<<[id          |-> ToString(clock),
                   tableId     |-> orderData.tableId,
                   status      |-> orderData.status,
                   timestamp   |-> orderData.timestamp,
                   items       |-> orderData.items,
                   total       |-> orderData.total,
                   observation |-> orderData.observation]>>)

\* createOrder, local branch: the ORDERS text written.
LocalCreateOrderOrders(stored, orderData, clock) ==
  LET newOrder == [id          |-> ToString(clock),
                   tableId     |-> orderData.tableId,
                   status      |-> orderData.status,
                   timestamp   |-> orderData.timestamp,
                   items       |-> orderData.items,
                   total       |-> orderData.total,
                   observation |-> orderData.observation]
      orders   == JSONparse(OrElse(stored, JSONstringify(<<>>)))
  IN  JSONstringify(Append(orders, newOrder))

\* updateOrderStatus, local branch: order.items.forEach restoring stock.
RECURSIVE LocalRestoreAll(_, _)
LocalRestoreAll(products, items) ==
  IF items = <<>> THEN products
  ELSE LET item   == Head(items)
           pIndex == FindIndex({i \in DOMAIN products :
                                  products[i].id = item.productId})
           next   == IF pIndex > 0
                       THEN [products EXCEPT ![pIndex].stock = @ + item.quantity]
                       ELSE products
       IN  LocalRestoreAll(next, Tail(items))

\* updateOrderStatus, local branch: whether the stock is restored.
LocalRestocks(order, status) ==
  status = CANCELED /\ order.status # CANCELED

\* updateOrderStatus, local branch: the PRODUCTS text after the call.
LocalUpdateOrderStatusProducts(storedProducts, storedOrders, orderId, status) ==
  LET orders == JSONparse(OrElse(storedOrders, JSONstringify(<<>>)))
      oIndex == FindIndex({i \in DOMAIN orders : orders[i].id = orderId})
  IN  IF oIndex > 0 /\ LocalRestocks(orders[oIndex], status)
        THEN JSONstringify(
               LocalRestoreAll(
                 JSONparse(OrElse(storedProducts, JSONstringify(<<>>))),
                 orders[oIndex].items))
        ELSE storedProducts

\* updateOrderStatus, local branch: the ORDERS text after the call.
LocalUpdateOrderStatusOrders(storedOrders, orderId, status) ==
  LET orders == JSONparse(OrElse(storedOrders, JSONstringify(<<>>)))
      oIndex == FindIndex({i \in DOMAIN orders : orders[i].id = orderId})
  IN  IF oIndex > 0
        THEN JSONstringify([orders EXCEPT ![oIndex].status = status])
        ELSE storedOrders

\* Fault: the record is written into an empty object, not the stored one.
LocalRequestTableClose_DropsOthers(stored, tableId, paymentMethod) ==
  JSONstringify(
    MapPut(EmptyMap, TableKey(tableId),
           [status |-> CLOSING_REQUESTED, paymentMethod |-> paymentMethod]))

\* requestTableClose, local branch.
LocalRequestTableClose(stored, tableId, paymentMethod) ==
  LET tables == JSONparse(OrElse(stored, JSONstringify(EmptyMap)))
  IN  JSONstringify(
        MapPut(tables, TableKey(tableId),
               [status |-> CLOSING_REQUESTED, paymentMethod |-> paymentMethod]))

\* finalizeTable, local branch: the TABLES text written.
LocalFinalizeTableTables(stored, tableId) ==
  LET tables == JSONparse(OrElse(stored, JSONstringify(EmptyMap)))
  IN  JSONstringify(MapDelete(tables, TableKey(tableId)))

\* Fault: the table of the order is not looked at.
LocalFinalizeStatus_AnyTable(o, tableId) ==
  IF o.status # CANCELED THEN PAID ELSE o.status

\* finalizeTable, local branch: the status one order gets.
LocalFinalizeStatus(o, tableId) ==
  IF o.tableId = tableId /\ o.status # CANCELED THEN PAID ELSE o.status

\* finalizeTable, local branch: the ORDERS text written.
LocalFinalizeTableOrders(stored, tableId) ==
  LET orders == JSONparse(OrElse(stored, JSONstringify(<<>>)))
  IN  JSONstringify(
        [i \in 1..Len(orders) |->
           [orders[i] EXCEPT !.status = LocalFinalizeStatus(orders[i], tableId)]])

\* ------------------------------------------------- cloud mode: operations
\* A Firestore collection is a map from document id to document data.  Each
\* operator below is the effect of one request on the collection it targets;
\* updateDoc on a document that does not exist is rejected and writes
\* nothing.

\* The id addDoc gives the n-th document it creates in the products ("P") or
\* the orders ("O") collection (20 characters).
AutoId(collection, n) ==
  "AUTOGENERATEDID-" \o collection \o (IF n < 10 THEN "00" ELSE "0") \o ToString(n)

\* saveProduct: "product.id && product.id.length > 10".
IsExistingId(id) == id # "" /\ Len(id) > 10

\* setDoc(ref, data, {merge: true}) and updateDoc(ref, data) on a document:
\* the fields of data are written over the document's own, and its other
\* fields are kept.
MergeFields(document, data) ==
  [f \in DOMAIN document \cup DOMAIN data |->
     IF f \in DOMAIN data THEN data[f] ELSE document[f]]

\* A field of a JavaScript object, undefined when the object has none.
Field(object, f) == IF f \in DOMAIN object THEN object[f] ELSE Undefined

\* A product is carried with its description and image where a
\* specification follows them, and without them elsewhere.
Detailed(product) == {"description", "imageUrl"} \subseteq DOMAIN product

\* const { id, ...data } = product
ProductData(product) == [f \in DOMAIN product \ {"id"} |-> product[f]]

\* snapshot.docs.map(d => ({ id: d.id, ...d.data() })) for products.
ProductDocs(collection) ==
  {[f \in DOMAIN collection[k] \cup {"id"} |->
      IF f = "id" THEN k ELSE collection[k][f]] : k \in DOMAIN collection}

\* saveProduct, cloud branch, existing id: updateDoc(docRef, data).
CloudUpdateProduct(collection, product) ==
  IF MapHas(collection, product.id)
    THEN MapPut(collection, product.id, ProductData(product))
    ELSE collection

\* saveProduct, cloud branch: the documents the name query returns.
CloudQueryByName(collection, name) ==
  {k \in DOMAIN collection : collection[k].name = name}

\* saveProduct, cloud branch: what is kept of querySnapshot.docs[0].
ExistingDoc(collection, k) ==
  [ref |-> k, currentStock |-> collection[k].stock,
   imageUrl |-> Field(collection[k], "imageUrl")]

\* saveProduct, cloud branch: the data of updateDoc(existingDoc.ref, {...}).
\* "product.imageUrl || currentData.imageUrl": an empty incoming image gives
\* way to the stored one.
MergeData(existingDoc, product) ==
  LET counted == [stock |-> existingDoc.currentStock + product.stock,
                  price |-> product.price]
      details == [description |-> Field(product, "description"),
                  imageUrl    |-> IF Field(product, "imageUrl") \in {"", Undefined}
                                    THEN existingDoc.imageUrl
                                    ELSE product.imageUrl]
  IN  IF Detailed(product) THEN MergeFields(counted, details) ELSE counted

\* saveProduct, cloud branch: updateDoc(existingDoc.ref, {stock, price, ...}).
CloudMergeProduct(collection, existingDoc, product) ==
  IF MapHas(collection, existingDoc.ref)
    THEN MapPut(collection, existingDoc.ref,
           MergeFields(collection[existingDoc.ref],
                       MergeData(existingDoc, product)))
    ELSE collection

\* saveProduct, cloud branch: addDoc(collection(db, 'products'), data).
CloudAddProduct(collection, product, n) ==
  MapPut(collection, AutoId("P", n), ProductData(product))

\* deleteProduct, cloud branch.
CloudDeleteProduct(collection, id) == MapDelete(collection, id)

\* createOrder, cloud branch: addDoc(collection(db, 'orders'), orderData).
CloudAddOrder(collection, orderData, n) ==
  MapPut(collection, AutoId("O", n), orderData)

\* createOrder, cloud branch: the updateDoc requests items.forEach sends.
StockWrites(orderId, items) ==
  {[order     |-> orderId,
    line      |-> i,
    productId |-> items[i].product.id,
    quantity  |-> items[i].quantity] : i \in 1..Len(items)}

\* The outcomes of a request to the server as its caller sees them.
Resolved == "resolved"
Rejected == "rejected"

\* Fault: the stock requests are sent whatever became of addDoc.
StockWritesAfter_NotAwaited(addDocOutcome, orderId, items) ==
  StockWrites(orderId, items)

\* createOrder, cloud branch: the stock requests sent in a call whose addDoc
\* had this outcome.  addDoc is awaited: when it rejects, the call throws
\* there and items.forEach is not reached.
StockWritesAfter(addDocOutcome, orderId, items) ==
  IF addDocOutcome = Rejected THEN {} ELSE StockWrites(orderId, items)

\* createOrder, cloud branch: updateDoc(pRef, {stock: increment(-quantity)}).
CloudIncrementStock(collection, productId, quantity) ==
  IF MapHas(collection, productId)
    THEN [collection EXCEPT ![productId].stock = @ - quantity]
    ELSE collection

\* updateOrderStatus, cloud branch: updateDoc(doc(db, 'orders', id), {status}).
CloudUpdateOrderStatus(collection, orderId, status) ==
  IF MapHas(collection, orderId)
    THEN [collection EXCEPT ![orderId].status = status]
    ELSE collection

\* requestTableClose, cloud branch: setDoc(..., {merge: true}).
CloudRequestTableClose(collection, tableId, paymentMethod) ==
  LET data == [status |-> CLOSING_REQUESTED, paymentMethod |-> paymentMethod]
      key  == TableKey(tableId)
  IN  MapPut(collection, key,
             IF MapHas(collection, key)
               THEN MergeFields(collection[key], data) ELSE data)

\* finalizeTable, cloud branch, step 1: deleteDoc(doc(db, 'tables', id)).
CloudDeleteTable(collection, tableId) ==
  MapDelete(collection, TableKey(tableId))

\* finalizeTable, cloud branch, steps 2 and 3: the orders of the table's
\* snapshot that get an updateDoc to PAID.
CloudOrdersToPay(collection, tableId) ==
  {k \in DOMAIN collection :
     /\ collection[k].tableId = tableId
     /\ collection[k].status # PAID
     /\ collection[k].status # CANCELED}

\* ------------------------------------------------- customer view (ClientView)
\* The subscribeTables callback: the status the view takes from a snapshot.
SnapshotStatus(tables, tableId) ==
  IF MapHas(tables, TableKey(tableId))
    THEN tables[TableKey(tableId)].status
    ELSE OPEN

\* Fault: the session ends on absence alone, whatever the status before.
DetectsSessionEnd_OnAbsence(tables, tableId, lastStatus) ==
  ~MapHas(tables, TableKey(tableId))

\* The subscribeTables callback: whether this snapshot ends the session.
DetectsSessionEnd(tables, tableId, lastStatus) ==
  ~MapHas(tables, TableKey(tableId)) /\ lastStatus = CLOSING_REQUESTED

\* The callback given to subscribeOrders, for the view of table tableId: the
\* table's orders that are not PAID.  The orders are kept as a set: the order
\* of the list is not modelled.
OrdersCallback(allOrders, tableId) ==
  {o \in allOrders : o.tableId = tableId /\ o.status # PAID}

\* ------------------------------------------------------------ subscriptions
\* A subscription is known by the id of the interval timer (setInterval) or
\* of the snapshot listener (onSnapshot) it registers; the unsubscribe handle
\* it returns closes over that id.
Kinds        == {"products", "orders", "tables"}
LocalBackend == "local"
CloudBackend == "cloud"

\* setInterval(fetch, 2000): the timer joins the browser's active timers.
SetInterval(timers, id) == timers \cup {id}

\* Fault: the handle leaves the timer running.
ClearInterval_Leaves(timers, id) == timers

\* clearInterval(interval): the timer leaves the active timers, and a tick
\* that was due is not run.
ClearInterval(timers, id) == timers \ {id}

\* onSnapshot(q, callback) registers a listener; the function it returns
\* removes it.
OnSnapshot(listeners, id)  == listeners \cup {id}
Unsubscribe(listeners, id) == listeners \ {id}

\* ------------------------------------------------------------------ state
VARIABLES
  db,             \* the Firestore handle: NoDb until init builds one
  now,            \* Date.now(), in milliseconds after start
  lsProducts,     \* local store: text under STORAGE_KEYS.PRODUCTS
  lsOrders,       \* local store: text under STORAGE_KEYS.ORDERS
  lsTables,       \* local store: text under STORAGE_KEYS.TABLES
  fsProducts,     \* Firestore: the products collection
  fsOrders,       \* Firestore: the orders collection
  fsTables,       \* Firestore: the tables collection
  issued,         \* Firestore: how many product documents addDoc has created
  writes,         \* cloud: stock updateDoc requests sent and not yet applied
  calls,          \* cloud: per client, the awaited call it is in the middle of
  tableId,        \* ClientView: the table this view belongs to
  lastStatusRef,  \* ClientView: lastStatusRef.current
  sessionStatus,  \* ClientView: sessionStatus
  isSessionEnded, \* ClientView: isSessionEnded
  myOrders,       \* ClientView: myOrders
  subs,           \* ClientView: the subscriptions its effect has made
  active,         \* the interval timers and snapshot listeners registered
  lastSeen,       \* history: the view's table in the last snapshot delivered
  justOrdered,    \* history: the order just created and the products before it
  firebaseConfig, \* the configuration compiled in (firebaseConfig.ts)
  lsConfig,       \* local store: text under STORAGE_KEYS.DB_CONFIG
  returned,       \* what the last call of init returned
  localStorage,   \* the browser's localStorage: key to text
  memoryStore,    \* memoryStore: key to text
  got,            \* what the last getItem since its key was written returned
  lastWrite,      \* history: per key, the text last set, Null if last removed
  apiKey,         \* geminiService: apiKey, '' when the environment has none
  report,         \* how the last generateDailyReport call ended
  requests,       \* history: the prompts sent to the external AI service
  handed,         \* history: the last local products fetch since the stored
                  \* text last changed: the text it found, the list it gave
                  \* the callback and the text stored at that moment
  thrown,         \* history: where exceptions of the subscription path have
                  \* surfaced: in the caller of subscribe, in a timer task
  products,       \* ClientView: the products on offer, as last delivered
  cart,           \* ClientView: the cart, a list of products with a quantity
  billing         \* history, per table: "requested" once requestTableClose
                  \* has run for it, "finalized" once finalizeTable has
                  \* removed its session after that

localVars == <<lsProducts, lsOrders, lsTables>>
cloudVars == <<fsProducts, fsOrders, fsTables, issued, writes, calls>>
viewVars  == <<tableId, lastStatusRef, sessionStatus, isSessionEnded, myOrders,
               subs, active, lastSeen>>
storeVars == <<localStorage, memoryStore, got, lastWrite>>
aiVars    == <<apiKey, report, requests>>
auxVars   == <<thrown, billing>>
coreVars  == <<firebaseConfig, lsConfig, returned, storeVars, aiVars>>
cartVars  == <<products, cart>>
baseVars  == <<coreVars, cartVars>>
cfgVars   == <<baseVars, auxVars>>
envVars   == <<cfgVars, handed>>
vars      == <<db, now, localVars, cloudVars, viewVars, justOrdered, envVars>>

\* A DatabaseConfig is modelled by its apiKey; every configuration names the
\* same project.  The file firebaseConfig.ts is shipped with a placeholder key
\* for the user to replace.
ApiKey         == "AIzaSy-key-of-the-project"
OtherApiKey    == "AIzaSy-another-key"
PlaceholderKey == "COLAR_SUA_API_KEY_AQUI"
SavedConfig    == [apiKey |-> ApiKey]

\* The configurations a caller passes, the ones the build may hold, and the
\* texts the page may find stored.
Configs         == {[apiKey |-> ApiKey], [apiKey |-> OtherApiKey], [apiKey |-> ""]}
CompiledConfigs == {[apiKey |-> PlaceholderKey], [apiKey |-> ""],
                    [apiKey |-> OtherApiKey]}
StoredConfigs   == {Null, MalformedText, JSONstringify(SavedConfig),
                    JSONstringify([apiKey |-> ""])}

\* getFirestore(initializeApp(config)): the handle, which knows its config.
GetFirestore(config) == "firestore:" \o config.apiKey

NoDb      == "null"
Firestore == GetFirestore(SavedConfig)
isCloud   == db # NoDb

\* The clients (browsers) whose calls can be in flight at the same time.
Clients == {"A", "B"}
Idle    == [op |-> "idle"]

\* What the view's table looked like in a snapshot: Null when it had no record.
SeenIn(tables, t) ==
  IF MapHas(tables, TableKey(t)) THEN <<tables[TableKey(t)]>> ELSE Null

\* StorageService.init has run: it built the Firestore handle from the
\* configuration saved earlier, or there was none and it did not.
Init ==
  /\ db \in {NoDb, Firestore}
  /\ now = 0
  /\ lsProducts = Null
  /\ lsOrders = Null
  /\ lsTables = Null
  /\ fsProducts = EmptyMap
  /\ fsOrders = EmptyMap
  /\ fsTables = EmptyMap
  /\ issued = 0
  /\ writes = {}
  /\ calls = [c \in Clients |-> Idle]
  /\ tableId = 1
  /\ lastStatusRef = OPEN
  /\ sessionStatus = OPEN
  /\ isSessionEnded = FALSE
  /\ myOrders = {}
  /\ subs = <<>>
  /\ active = {}
  /\ lastSeen = Null
  /\ justOrdered = Null
  /\ firebaseConfig = [apiKey |-> PlaceholderKey]
  /\ lsConfig = IF isCloud THEN JSONstringify(SavedConfig) ELSE Null
  /\ returned = <<isCloud>>
  /\ localStorage = EmptyMap
  /\ memoryStore = EmptyMap
  /\ got = Null
  /\ lastWrite = EmptyMap
  /\ apiKey = ""
  /\ report = Null
  /\ requests = <<>>
  /\ thrown = {}
  /\ products = {}
  /\ cart = <<>>
  /\ billing = [t \in Tables |-> "none"]
  /\ handed = Null

\* ------------------------------------------------------------------ inputs
\* A product the view was never sent, or that has been deleted since.
UnknownProduct == [id |-> "9", name |-> "Suco", price |-> 5]

\* The products a cart can hold, given the catalog of the active backend.
CartProducts(catalog, ids) ==
  {[id |-> p.id, name |-> p.name, price |-> p.price] :
     p \in {c \in catalog : c.id \in ids}}

CartLines(catalog, ids) ==
  [product : CartProducts(catalog, ids), quantity : Quantities]

\* The item lists of an order: one line; the same product on two lines of
\* one unit each; one unit of the unknown product.
ItemLists(catalog, ids) ==
  {<<i>> : i \in CartLines(catalog, ids)}
    \cup {<<i, i>> : i \in {l \in CartLines(catalog, ids) : l.quantity = 1}}
    \cup {<<[product |-> UnknownProduct, quantity |-> 1]>>}

\* --------------------------------------------------------- what is stored
\* snapshot.docs.map(d => ({ id: d.id, ...d.data() })) for orders.
OrderDocs(collection) ==
  {[id |-> k] @@ collection[k] : k \in DOMAIN collection}

\* getOrdersOnce: the orders of the active backend.
getOrdersOnce ==
  IF isCloud THEN OrderDocs(fsOrders)
  ELSE Range(IF lsOrders # Null THEN JSONparse(lsOrders) ELSE <<>>)

\* The products of the active backend, as the operations read them.
StoredProducts ==
  IF isCloud THEN ProductDocs(fsProducts)
  ELSE Range(JSONparse(OrElse(lsProducts, JSONstringify(<<>>))))

\* ------------------------------------------------------------------ the view
\* ClientView, the callback given to subscribeTables.
TablesCallback(tables) ==
  /\ isSessionEnded' =
       IF DetectsSessionEnd(tables, tableId, lastStatusRef)
         THEN TRUE ELSE isSessionEnded
  /\ lastStatusRef' = SnapshotStatus(tables, tableId)
  /\ sessionStatus' = SnapshotStatus(tables, tableId)
  /\ lastSeen' = SeenIn(tables, tableId)

\* The billing history after requestTableClose(t) and after finalizeTable(t)
\* has removed the session of t.
BilledRequested(t) ==
  [billing EXCEPT ![t] = IF @ = "none" THEN "requested" ELSE @]

BilledFinalized(t) ==
  [billing EXCEPT ![t] = IF @ = "requested" THEN "finalized" ELSE @]

\* ------------------------------------------------------- the view's cart
\* The products callback of the view: the products in stock, each with the
\* placeholder image when its imageUrl is empty or too short to be one.
PlaceholderImage == "https://placehold.co/200?text=Sem+Imagem"

ProductsCallback(allProducts) ==
  {IF Detailed(p)
     THEN [p EXCEPT !.imageUrl = IF Len(@) > 5 THEN @ ELSE PlaceholderImage]
     ELSE p : p \in {a \in allProducts : a.stock > 0}}

\* { ...product, quantity: n }
CartItem(product, n) ==
  [f \in DOMAIN product \cup {"quantity"} |->
     IF f = "quantity" THEN n ELSE product[f]]

\* addToCart(product): the cart after it.
AddToCartResult(prev, product) ==
  LET existing == FindIndex({i \in DOMAIN prev : prev[i].id = product.id})
  IN  IF existing > 0
        THEN IF prev[existing].quantity >= product.stock
               THEN prev
               ELSE [prev EXCEPT ![existing].quantity = @ + 1]
        ELSE Append(prev, CartItem(product, 1))

\* removeFromCart(productId): the cart after it.
RemoveFromCartResult(prev, productId) ==
  SelectSeq(prev, LAMBDA item : item.id # productId)

\* updateQuantity(productId, delta): the cart after it; offered is the
\* view's products at that moment.
UpdateQuantityResult(prev, offered, productId, delta) ==
  [i \in DOMAIN prev |->
     IF prev[i].id = productId
       THEN LET newQty == Max(1, prev[i].quantity + delta)
                found  == {p \in offered : p.id = productId}
            IN  IF found # {} /\ \E p \in found : newQty > p.stock
                  THEN prev[i]
                  ELSE [prev[i] EXCEPT !.quantity = newQty]
       ELSE prev[i]]

\* updateItemPrice(productId, newPrice): the cart after it.  newPrice is a
\* number, [isNaN |-> FALSE, value |-> n], or NaN, [isNaN |-> TRUE].
UpdateItemPriceResult(prev, productId, newPrice) ==
  [i \in DOMAIN prev |->
     IF prev[i].id = productId
       THEN [prev[i] EXCEPT
               !.price = IF newPrice.isNaN THEN 0 ELSE newPrice.value]
       ELSE prev[i]]

\* placeOrder: cart.map(c => ({ product: c, quantity: c.quantity })).
PlaceOrderItems(items) ==
  [i \in DOMAIN items |-> [product |-> items[i], quantity |-> items[i].quantity]]

\* ------------------------------------------------------- the view's effect
\* The text stored under the key a kind of subscription reads.
StoredText(kind) ==
  CASE kind = "products" -> lsProducts
    [] kind = "orders"   -> lsOrders
    [] kind = "tables"   -> lsTables

\* JSON.parse of the stored text returns (a key with no text is not parsed).
Readable(text) == text = Null \/ Parses(text)

\* A timer of a local subscription of this kind is running: its fetch closure
\* reads the local store whatever the backend is by now.
Polling(kind) ==
  \E s \in active : subs[s].kind = kind /\ subs[s].backend = LocalBackend

\* A snapshot listener of this kind is registered.
Listening(kind) ==
  \E s \in active : subs[s].kind = kind /\ subs[s].backend = CloudBackend

\* The subscriptions one run of the effect makes, in the order it makes them.
EffectSubscriptions(backend) ==
  << [kind |-> "products", backend |-> backend, called |-> FALSE],
     [kind |-> "orders",   backend |-> backend, called |-> FALSE],
     [kind |-> "tables",   backend |-> backend, called |-> FALSE] >>

\* The effect may run: it has not run yet, or its cleanup has run since.
EffectMayRun ==
  /\ "subscribe" \notin thrown
  /\ \A s \in DOMAIN subs : subs[s].called
  /\ Len(subs) < 3 * MaxEffects

\* The effect of ClientView runs in local mode: each subscribe call runs its
\* fetch at once, callback included, and starts its timer.
ViewEffectLocal ==
  /\ ~isCloud
  /\ EffectMayRun
  /\ \A kind \in Kinds : Readable(StoredText(kind))
  /\ lsProducts' = LocalFetchProductsStore(lsProducts)
  /\ justOrdered' = IF lsProducts' = lsProducts THEN justOrdered ELSE Null
  /\ myOrders' = OrdersCallback(LocalFetchOrdersSnapshot(lsOrders), tableId)
  /\ TablesCallback(LocalFetchTablesSnapshot(lsTables))
  /\ subs' = subs \o EffectSubscriptions(LocalBackend)
  /\ active' = SetInterval(SetInterval(SetInterval(active,
                   Len(subs) + 1), Len(subs) + 2), Len(subs) + 3)
  /\ handed' = <<[found |-> lsProducts,
                   list  |-> LocalFetchProductsSnapshot(lsProducts),
                   store |-> lsProducts']>>
  /\ products' = ProductsCallback(Range(LocalFetchProductsSnapshot(lsProducts)))
  /\ UNCHANGED <<coreVars, auxVars, cart, db, now, lsOrders, lsTables,
                 cloudVars, tableId>>

\* The effect of ClientView runs in local mode on a stored text that does
\* not parse: the subscribe call that reads it throws out of its first fetch,
\* before its timer is started; the calls before it have completed and their
\* timers run on, the calls after it are never made, and the effect returns
\* no cleanup.
ViewEffectLocalThrows ==
  /\ ~isCloud
  /\ EffectMayRun
  /\ \E kind \in Kinds : ~Readable(StoredText(kind))
  /\ LET done == IF ~Readable(lsProducts) THEN 0
                 ELSE IF ~Readable(lsOrders) THEN 1 ELSE 2
     IN  /\ lsProducts' = IF done >= 1 THEN LocalFetchProductsStore(lsProducts)
                                       ELSE lsProducts
         /\ handed' = IF done >= 1
                        THEN <<[found |-> lsProducts,
                                list  |-> LocalFetchProductsSnapshot(lsProducts),
                                store |-> lsProducts']>>
                        ELSE handed
         /\ myOrders' = IF done >= 2
                          THEN OrdersCallback(
                                 LocalFetchOrdersSnapshot(lsOrders), tableId)
                          ELSE myOrders
         /\ subs' = subs \o SubSeq(EffectSubscriptions(LocalBackend), 1, done)
         /\ active' = IF done = 0 THEN active
                      ELSE IF done = 1 THEN SetInterval(active, Len(subs) + 1)
                      ELSE SetInterval(SetInterval(active, Len(subs) + 1),
                                       Len(subs) + 2)
  /\ justOrdered' = IF lsProducts' = lsProducts THEN justOrdered ELSE Null
  /\ thrown' = thrown \cup {"subscribe"}
  /\ products' =
       IF Readable(lsProducts)
         THEN ProductsCallback(Range(LocalFetchProductsSnapshot(lsProducts)))
         ELSE products
  /\ UNCHANGED <<coreVars, cart, billing, db, now, lsOrders, lsTables,
                 cloudVars, tableId, lastStatusRef, sessionStatus,
                 isSessionEnded, lastSeen>>

\* The effect of ClientView runs in cloud mode: each subscribe call registers
\* a listener; the snapshots are handed over later.
ViewEffectCloud ==
  /\ isCloud
  /\ EffectMayRun
  /\ subs' = subs \o EffectSubscriptions(CloudBackend)
  /\ active' = OnSnapshot(OnSnapshot(OnSnapshot(active,
                   Len(subs) + 1), Len(subs) + 2), Len(subs) + 3)
  /\ UNCHANGED <<envVars, db, now, localVars, cloudVars, tableId, lastStatusRef,
                 sessionStatus, isSessionEnded, myOrders, lastSeen, justOrdered>>

\* One unsubscribe handle is called.
CallHandle(registered, s) ==
  IF subs[s].backend = LocalBackend
    THEN ClearInterval(registered, s)
    ELSE Unsubscribe(registered, s)

\* The cleanup of the effect: unsubProducts(); unsubOrders(); unsubTables().
ViewCleanup ==
  /\ "subscribe" \notin thrown
  /\ \E s \in DOMAIN subs : ~subs[s].called
  /\ LET n == Len(subs)
     IN  /\ active' = CallHandle(CallHandle(CallHandle(active, n - 2), n - 1), n)
         /\ subs' = [s \in DOMAIN subs |-> [subs[s] EXCEPT !.called = TRUE]]
  /\ UNCHANGED <<envVars, db, now, localVars, cloudVars, tableId, lastStatusRef,
                 sessionStatus, isSessionEnded, myOrders, lastSeen, justOrdered>>

\* The view is rendered again with another tableId: the effect depends on
\* [tableId], so its cleanup runs and the effect runs again for the new
\* table; the state and the ref of the view are those of the same view.
TableIdChanges(t) ==
  /\ "subscribe" \notin thrown
  /\ \E s \in DOMAIN subs : ~subs[s].called
  /\ Len(subs) < 3 * MaxEffects
  /\ t # tableId
  /\ tableId' = t
  /\ LET n == Len(subs)
     IN  /\ active' = CallHandle(CallHandle(CallHandle(active, n - 2), n - 1), n)
         /\ subs' = [s \in DOMAIN subs |-> [subs[s] EXCEPT !.called = TRUE]]
  /\ UNCHANGED <<envVars, db, now, localVars, cloudVars, lastStatusRef,
                 sessionStatus, isSessionEnded, myOrders, lastSeen, justOrdered>>

\* The state once the view has mounted, nothing else having happened since
\* init: in local mode the three fetches have run on the empty store.
InitMounted ==
  /\ db \in {NoDb, Firestore}
  /\ now = 0
  /\ lsProducts = IF isCloud THEN Null ELSE LocalFetchProductsStore(Null)
  /\ lsOrders = Null
  /\ lsTables = Null
  /\ fsProducts = EmptyMap
  /\ fsOrders = EmptyMap
  /\ fsTables = EmptyMap
  /\ issued = 0
  /\ writes = {}
  /\ calls = [c \in Clients |-> Idle]
  /\ tableId = 1
  /\ lastStatusRef = OPEN
  /\ sessionStatus = OPEN
  /\ isSessionEnded = FALSE
  /\ myOrders = {}
  /\ subs = EffectSubscriptions(IF isCloud THEN CloudBackend ELSE LocalBackend)
  /\ active = {1, 2, 3}
  /\ lastSeen = Null
  /\ justOrdered = Null
  /\ firebaseConfig = [apiKey |-> PlaceholderKey]
  /\ lsConfig = IF isCloud THEN JSONstringify(SavedConfig) ELSE Null
  /\ returned = <<isCloud>>
  /\ localStorage = EmptyMap
  /\ memoryStore = EmptyMap
  /\ got = Null
  /\ lastWrite = EmptyMap
  /\ apiKey = ""
  /\ report = Null
  /\ requests = <<>>
  /\ thrown = {}
  /\ products = IF isCloud THEN {}
                ELSE ProductsCallback(Range(LocalFetchProductsSnapshot(Null)))
  /\ cart = <<>>
  /\ billing = [t \in Tables |-> "none"]
  /\ handed = IF isCloud THEN Null
              ELSE <<[found |-> Null,
                      list  |-> LocalFetchProductsSnapshot(Null),
                      store |-> LocalFetchProductsStore(Null)]>>

\* ------------------------------------------------------------ configuration
\* The body of init, given the text it finds under DB_CONFIG.
InitCall(config, built, storedConfig) ==
  LET selected == InitConfig(config, firebaseConfig, storedConfig)
  IN  /\ db' = IF InitBuilds(selected, built)
                 THEN GetFirestore(selected[1]) ELSE db
      /\ returned' = <<InitBuilds(selected, built)>>

\* StorageService.init(config?).
StorageInit(config, built) ==
  /\ InitCall(config, built, lsConfig)
  /\ UNCHANGED <<firebaseConfig, lsConfig, storeVars, aiVars, handed, auxVars, cartVars, now, localVars,
                 cloudVars, viewVars, justOrdered>>

\* The application calls init as the page loads, before its views mount.
AppStart(config, built) ==
  /\ returned = Null
  /\ subs = <<>>
  /\ StorageInit(config, built)

\* StorageService.saveConfig(config).
SaveConfig(config, built) ==
  /\ lsConfig' = JSONstringify(config)
  /\ InitCall(<<config>>, built, lsConfig')
  /\ UNCHANGED <<firebaseConfig, storeVars, aiVars, handed, auxVars, cartVars, now, localVars, cloudVars,
                 viewVars, justOrdered>>

\* StorageService.clearConfig(): the stored configuration and the handle are
\* dropped and the page is loaded again, which ends every timer and listener
\* of the page and puts its components back to their first state.
ClearConfig ==
  /\ lsConfig' = Null
  /\ db' = NoDb
  /\ returned' = Null
  /\ subs' = <<>>
  /\ active' = {}
  /\ lastStatusRef' = OPEN
  /\ sessionStatus' = OPEN
  /\ isSessionEnded' = FALSE
  /\ myOrders' = {}
  /\ products' = {}
  /\ cart' = <<>>
  /\ lastSeen' = Null
  /\ justOrdered' = Null
  /\ UNCHANGED <<firebaseConfig, storeVars, aiVars, handed, auxVars, now, localVars, cloudVars,
                 tableId>>

\* The page has loaded and init has not run yet.
InitStartup ==
  /\ db = NoDb
  /\ now = 0
  /\ lsProducts = Null
  /\ lsOrders = Null
  /\ lsTables = Null
  /\ fsProducts = EmptyMap
  /\ fsOrders = EmptyMap
  /\ fsTables = EmptyMap
  /\ issued = 0
  /\ writes = {}
  /\ calls = [c \in Clients |-> Idle]
  /\ tableId = 1
  /\ lastStatusRef = OPEN
  /\ sessionStatus = OPEN
  /\ isSessionEnded = FALSE
  /\ myOrders = {}
  /\ subs = <<>>
  /\ active = {}
  /\ lastSeen = Null
  /\ justOrdered = Null
  /\ firebaseConfig \in CompiledConfigs
  /\ lsConfig \in StoredConfigs
  /\ returned = Null
  /\ localStorage = EmptyMap
  /\ memoryStore = EmptyMap
  /\ got = Null
  /\ lastWrite = EmptyMap
  /\ apiKey = ""
  /\ report = Null
  /\ requests = <<>>
  /\ thrown = {}
  /\ products = {}
  /\ cart = <<>>
  /\ billing = [t \in Tables |-> "none"]
  /\ handed = Null

\* ------------------------------------------------------------ local actions
LocalOrders  == JSONparse(OrElse(lsOrders, JSONstringify(<<>>)))
LocalCatalog == JSONparse(OrElse(lsProducts, JSONstringify(<<>>)))

\* The bound on stock: an operation may not raise a stock above MaxStored.
WithinMaxStored(before, after) ==
  \A p \in Range(after) : p.stock <= MaxStored \/ p \in Range(before)

\* The clock moves on by a millisecond.  The clock is read for an order's
\* timestamp and, in local mode, for its id: what can be seen of it is whether
\* two local orders were created in the same millisecond, so it is let tick
\* only past an instant at which a local order was created.
Tick ==
  /\ \E o \in Range(LocalOrders) : o.timestamp = now
  /\ now' = now + 1
  /\ UNCHANGED <<envVars, db, localVars, cloudVars, viewVars, justOrdered>>

\* subscribeProducts, local mode: one run of fetch (first call or a poll).
FetchProductsLocal ==
  /\ Polling("products")
  /\ Readable(lsProducts)
  /\ lsProducts' = LocalFetchProductsStore(lsProducts)
  /\ justOrdered' = IF lsProducts' = lsProducts THEN justOrdered ELSE Null
  /\ handed' = <<[found |-> lsProducts,
                   list  |-> LocalFetchProductsSnapshot(lsProducts),
                   store |-> lsProducts']>>
  /\ products' = ProductsCallback(Range(LocalFetchProductsSnapshot(lsProducts)))
  /\ UNCHANGED <<coreVars, auxVars, cart, db, now, lsOrders, lsTables,
                 cloudVars, viewVars>>

\* subscribeTables, local mode: one run of fetch, into the view's callback.
FetchTablesLocal ==
  /\ Polling("tables")
  /\ Readable(lsTables)
  /\ TablesCallback(LocalFetchTablesSnapshot(lsTables))
  /\ UNCHANGED <<envVars, db, now, localVars, cloudVars, tableId, myOrders, subs, active,
                 justOrdered>>

\* subscribeOrders, local mode: one run of fetch, into the view's callback.
FetchOrdersLocal ==
  /\ Polling("orders")
  /\ Readable(lsOrders)
  /\ myOrders' = OrdersCallback(LocalFetchOrdersSnapshot(lsOrders), tableId)
  /\ UNCHANGED <<envVars, db, now, localVars, cloudVars, tableId, lastStatusRef,
                 sessionStatus, isSessionEnded, subs, active, lastSeen,
                 justOrdered>>

\* A timer runs fetch on a stored text that does not parse: JSON.parse throws
\* inside the timer task, the callback is not invoked, the timer runs on.
FetchLocalThrows(kind) ==
  /\ Polling(kind)
  /\ ~Readable(StoredText(kind))
  /\ thrown' = thrown \cup {"timer"}
  /\ UNCHANGED <<baseVars, billing, handed, db, now, localVars, cloudVars,
                 viewVars, justOrdered>>

\* Something other than this program (another page of the origin, the
\* browser's tools) leaves a text that is not JSON under a key.
StoreMalformed(kind) ==
  /\ lsProducts' = IF kind = "products" THEN MalformedText ELSE lsProducts
  /\ lsOrders' = IF kind = "orders" THEN MalformedText ELSE lsOrders
  /\ lsTables' = IF kind = "tables" THEN MalformedText ELSE lsTables
  /\ handed' = IF lsProducts' = lsProducts THEN handed ELSE Null
  /\ justOrdered' = IF lsProducts' = lsProducts THEN justOrdered ELSE Null
  /\ UNCHANGED <<cfgVars, db, now, cloudVars, viewVars>>

\* The key is removed from outside (the site's data is cleared).
StoreCleared(kind) ==
  /\ lsProducts' = IF kind = "products" THEN Null ELSE lsProducts
  /\ lsOrders' = IF kind = "orders" THEN Null ELSE lsOrders
  /\ lsTables' = IF kind = "tables" THEN Null ELSE lsTables
  /\ handed' = IF lsProducts' = lsProducts THEN handed ELSE Null
  /\ justOrdered' = IF lsProducts' = lsProducts THEN justOrdered ELSE Null
  /\ UNCHANGED <<cfgVars, db, now, cloudVars, viewVars>>

\* saveProduct, local mode.
SaveProductLocal(product) ==
  /\ ~isCloud
  /\ lsProducts' = LocalSaveProduct(lsProducts, product)
  /\ WithinMaxStored(LocalCatalog, JSONparse(lsProducts'))
  /\ justOrdered' = Null
  /\ handed' = IF lsProducts' = lsProducts THEN handed ELSE Null
  /\ UNCHANGED <<cfgVars, db, now, lsOrders, lsTables, cloudVars, viewVars>>

\* deleteProduct, local mode.
DeleteProductLocal(id) ==
  /\ ~isCloud
  /\ lsProducts' = LocalDeleteProduct(lsProducts, id)
  /\ justOrdered' = Null
  /\ handed' = IF lsProducts' = lsProducts THEN handed ELSE Null
  /\ UNCHANGED <<cfgVars, db, now, lsOrders, lsTables, cloudVars, viewVars>>

\* createOrder, local mode.
CreateOrderLocal(t, items, observation) ==
  /\ ~isCloud
  /\ Len(LocalOrders) < MaxOrders
  /\ lsProducts' = LocalCreateOrderProducts(lsProducts, items)
  /\ lsOrders' = LocalCreateOrderOrders(
                   lsOrders, OrderData(t, items, observation, now), now)
  /\ justOrdered' = <<[id |-> ToString(now), products |-> Range(LocalCatalog)]>>
  /\ handed' = IF lsProducts' = lsProducts THEN handed ELSE Null
  /\ UNCHANGED <<cfgVars, db, now, lsTables, cloudVars, viewVars>>

\* updateOrderStatus, local mode.
UpdateOrderStatusLocal(orderId, status) ==
  /\ ~isCloud
  /\ lsProducts' = LocalUpdateOrderStatusProducts(
                     lsProducts, lsOrders, orderId, status)
  /\ lsOrders' = LocalUpdateOrderStatusOrders(lsOrders, orderId, status)
  /\ WithinMaxStored(LocalCatalog, JSONparse(OrElse(lsProducts', JSONstringify(<<>>))))
  /\ justOrdered' = Null
  /\ handed' = IF lsProducts' = lsProducts THEN handed ELSE Null
  /\ UNCHANGED <<cfgVars, db, now, lsTables, cloudVars, viewVars>>

\* requestTableClose, local mode.
RequestTableCloseLocal(t, paymentMethod) ==
  /\ ~isCloud
  /\ lsTables' = LocalRequestTableClose(lsTables, t, paymentMethod)
  /\ billing' = BilledRequested(t)
  /\ UNCHANGED <<baseVars, handed, thrown, db, now, lsProducts, lsOrders, cloudVars, viewVars, justOrdered>>

\* finalizeTable, local mode.
FinalizeTableLocal(t) ==
  /\ ~isCloud
  /\ lsTables' = LocalFinalizeTableTables(lsTables, t)
  /\ lsOrders' = LocalFinalizeTableOrders(lsOrders, t)
  /\ justOrdered' = Null
  /\ billing' = BilledFinalized(t)
  /\ UNCHANGED <<baseVars, handed, thrown, db, now, lsProducts, cloudVars, viewVars>>

\* The order ids a caller can pass: those stored, and one that is not.
LocalOrderIds == {o.id : o \in Range(LocalOrders)} \cup {"none"}

\* ------------------------------------------------------------ cloud actions
CloudCatalog == ProductDocs(fsProducts)

\* The order ids a caller can pass: those stored, and one that is not.
CloudOrderIds == DOMAIN fsOrders \cup {"none"}

\* The document ids addDoc has given to products, deleted ones included.
IssuedProductIds == {AutoId("P", n) : n \in 1..issued}

\* Orders are never deleted: addDoc has created as many as are stored.
issuedOrders == Cardinality(DOMAIN fsOrders)

\* The bound on stock, for a collection.
CloudWithinMaxStored(before, after) ==
  \A k \in DOMAIN after :
     after[k].stock <= MaxStored \/ (MapHas(before, k) /\ before[k] = after[k])

\* saveProduct, cloud mode, with the id of an existing document: one request.
SaveProductCloudExisting(product) ==
  /\ isCloud
  /\ IsExistingId(product.id)
  /\ fsProducts' = CloudUpdateProduct(fsProducts, product)
  /\ justOrdered' = Null
  /\ UNCHANGED <<envVars, db, now, localVars, fsOrders, fsTables, issued, writes, calls,
                 viewVars>>

\* saveProduct, cloud mode, new product: the name query (getDocs).
SaveProductCloudQuery(c, product) ==
  /\ isCloud
  /\ calls[c] = Idle
  /\ ~IsExistingId(product.id)
  /\ LET hits == CloudQueryByName(fsProducts, product.name)
     IN  \/ /\ hits = {}
            /\ calls' = [calls EXCEPT ![c] =
                 [op |-> "saveProduct", product |-> product, existingDoc |-> Null]]
         \/ \E k \in hits :
              calls' = [calls EXCEPT ![c] =
                 [op |-> "saveProduct", product |-> product,
                  existingDoc |-> <<ExistingDoc(fsProducts, k)>>]]
  /\ UNCHANGED <<envVars, db, now, localVars, fsProducts, fsOrders, fsTables, issued,
                 writes, viewVars, justOrdered>>

\* saveProduct, cloud mode, new product: the write that follows the query.
SaveProductCloudWrite(c) ==
  /\ isCloud
  /\ calls[c].op = "saveProduct"
  /\ IF calls[c].existingDoc = Null
       THEN /\ issued < MaxProducts
            /\ fsProducts' = CloudAddProduct(fsProducts, calls[c].product, issued + 1)
            /\ issued' = issued + 1
       ELSE /\ fsProducts' = CloudMergeProduct(
                               fsProducts, calls[c].existingDoc[1], calls[c].product)
            /\ CloudWithinMaxStored(fsProducts, fsProducts')
            /\ UNCHANGED issued
  /\ calls' = [calls EXCEPT ![c] = Idle]
  /\ justOrdered' = Null
  /\ UNCHANGED <<envVars, db, now, localVars, fsOrders, fsTables, writes, viewVars>>

\* deleteProduct, cloud mode.
DeleteProductCloud(id) ==
  /\ isCloud
  /\ fsProducts' = CloudDeleteProduct(fsProducts, id)
  /\ justOrdered' = Null
  /\ UNCHANGED <<envVars, db, now, localVars, fsOrders, fsTables, issued, writes, calls,
                 viewVars>>

\* createOrder, cloud mode: the awaited addDoc; the stock requests are sent
\* without being awaited and are applied one by one afterwards.
CreateOrderCloud(t, items, observation) ==
  /\ isCloud
  /\ issuedOrders < MaxOrders
  /\ fsOrders' = CloudAddOrder(
                   fsOrders, OrderData(t, items, observation, now), issuedOrders + 1)
  /\ writes' = writes \cup StockWrites(AutoId("O", issuedOrders + 1), items)
  /\ justOrdered' = <<[id |-> AutoId("O", issuedOrders + 1),
                       products |-> CloudCatalog]>>
  /\ UNCHANGED <<envVars, db, now, localVars, fsProducts, fsTables, issued, calls,
                 viewVars>>

\* createOrder, cloud mode, with the order write rejected by the server: the
\* call fails towards its caller with what it has sent by then.
CreateOrderCloudRejected(t, items, observation) ==
  /\ isCloud
  /\ writes' = writes \cup StockWritesAfter(
                             Rejected, AutoId("O", issuedOrders + 1), items)
  /\ thrown' = thrown \cup {"createOrder"}
  /\ UNCHANGED <<baseVars, billing, handed, db, now, localVars, fsProducts,
                 fsOrders, fsTables, issued, calls, viewVars, justOrdered>>

\* ---------------------------------------------------------- cart actions
\* The view is on screen with its cart: mounted and its session not ended.
CartOpen ==
  /\ "subscribe" \notin thrown
  /\ \E s \in DOMAIN subs : ~subs[s].called
  /\ ~isSessionEnded

\* addToCart(product), for a product on offer.
AddToCart(product) ==
  /\ CartOpen
  /\ product \in products
  /\ cart' = AddToCartResult(cart, product)
  /\ UNCHANGED <<coreVars, products, auxVars, handed, db, now, localVars,
                 cloudVars, viewVars, justOrdered>>

\* removeFromCart(productId).
RemoveFromCart(productId) ==
  /\ CartOpen
  /\ cart' = RemoveFromCartResult(cart, productId)
  /\ UNCHANGED <<coreVars, products, auxVars, handed, db, now, localVars,
                 cloudVars, viewVars, justOrdered>>

\* updateQuantity(productId, delta): the + and - buttons of a cart item.
UpdateQuantity(productId, delta) ==
  /\ CartOpen
  /\ cart' = UpdateQuantityResult(cart, products, productId, delta)
  /\ \A i \in DOMAIN cart' : cart'[i].quantity <= MaxCart
  /\ UNCHANGED <<coreVars, products, auxVars, handed, db, now, localVars,
                 cloudVars, viewVars, justOrdered>>

\* updateItemPrice(productId, newPrice).
UpdateItemPrice(productId, newPrice) ==
  /\ CartOpen
  /\ cart' = UpdateItemPriceResult(cart, productId, newPrice)
  /\ UNCHANGED <<coreVars, products, auxVars, handed, db, now, localVars,
                 cloudVars, viewVars, justOrdered>>

\* placeOrder, local mode: createOrder with the cart, then the cart is
\* emptied.
PlaceOrderLocal ==
  /\ CartOpen
  /\ ~isCloud
  /\ cart # <<>>
  /\ Len(LocalOrders) < MaxPlaced
  /\ LET items == PlaceOrderItems(cart)
     IN  /\ lsProducts' = LocalCreateOrderProducts(lsProducts, items)
         /\ lsOrders' = LocalCreateOrderOrders(
                          lsOrders, OrderData(tableId, items, "", now), now)
  /\ justOrdered' = <<[id |-> ToString(now), products |-> Range(LocalCatalog)]>>
  /\ handed' = IF lsProducts' = lsProducts THEN handed ELSE Null
  /\ cart' = <<>>
  /\ UNCHANGED <<coreVars, products, auxVars, db, now, lsTables, cloudVars,
                 viewVars>>

\* placeOrder, cloud mode: createOrder returns once the order is stored and
\* the stock requests are sent; then the cart is emptied.
PlaceOrderCloud ==
  /\ CartOpen
  /\ isCloud
  /\ cart # <<>>
  /\ issuedOrders < MaxPlaced
  /\ LET items == PlaceOrderItems(cart)
     IN  /\ fsOrders' = CloudAddOrder(
                          fsOrders, OrderData(tableId, items, "", now),
                          issuedOrders + 1)
         /\ writes' = writes \cup StockWrites(AutoId("O", issuedOrders + 1), items)
  /\ justOrdered' = <<[id |-> AutoId("O", issuedOrders + 1),
                       products |-> CloudCatalog]>>
  /\ cart' = <<>>
  /\ UNCHANGED <<coreVars, products, auxVars, handed, db, now, localVars,
                 fsProducts, fsTables, issued, calls, viewVars>>

\* createOrder, cloud mode: one stock request reaches the server.
ApplyStockWrite(w) ==
  /\ isCloud
  /\ w \in writes
  /\ fsProducts' = CloudIncrementStock(fsProducts, w.productId, w.quantity)
  /\ writes' = writes \ {w}
  /\ justOrdered' =
       IF justOrdered # Null /\ justOrdered[1].id = w.order
         THEN justOrdered ELSE Null
  /\ UNCHANGED <<envVars, db, now, localVars, fsOrders, fsTables, issued, calls, viewVars>>

\* updateOrderStatus, cloud mode: the status is written; the stock is not
\* touched ("restore stock logic (omitted for brevity)").
UpdateOrderStatusCloud(orderId, status) ==
  /\ isCloud
  /\ fsOrders' = CloudUpdateOrderStatus(fsOrders, orderId, status)
  /\ justOrdered' = Null
  /\ UNCHANGED <<envVars, db, now, localVars, fsProducts, fsTables, issued, writes, calls,
                 viewVars>>

\* requestTableClose, cloud mode.
RequestTableCloseCloud(t, paymentMethod) ==
  /\ isCloud
  /\ fsTables' = CloudRequestTableClose(fsTables, t, paymentMethod)
  /\ billing' = BilledRequested(t)
  /\ UNCHANGED <<baseVars, handed, thrown, db, now, localVars, fsProducts, fsOrders, issued, writes, calls,
                 viewVars, justOrdered>>

\* finalizeTable, cloud mode, step 1: the session document is deleted.
FinalizeTableCloudDelete(c, t) ==
  /\ isCloud
  /\ calls[c] = Idle
  /\ fsTables' = CloudDeleteTable(fsTables, t)
  /\ calls' = [calls EXCEPT ![c] =
                 [op |-> "finalizeTable", tableId |-> t, pc |-> "getDocs",
                  updates |-> {}]]
  /\ billing' = BilledFinalized(t)
  /\ UNCHANGED <<baseVars, handed, thrown, db, now, localVars, fsProducts, fsOrders, issued, writes,
                 viewVars, justOrdered>>

\* finalizeTable, cloud mode, step 2: the table's orders are read, and an
\* update is sent for each one that is neither PAID nor CANCELED.  With
\* nothing to update, Promise.all resolves and the call returns.
FinalizeTableCloudQuery(c) ==
  /\ isCloud
  /\ calls[c].op = "finalizeTable"
  /\ calls[c].pc = "getDocs"
  /\ LET updates == CloudOrdersToPay(fsOrders, calls[c].tableId)
     IN  calls' = [calls EXCEPT ![c] =
                     IF updates = {} THEN Idle
                     ELSE [calls[c] EXCEPT !.pc = "updateDoc",
                                           !.updates = updates]]
  /\ UNCHANGED <<envVars, db, now, localVars, fsProducts, fsOrders, fsTables, issued,
                 writes, viewVars, justOrdered>>

\* finalizeTable, cloud mode, step 3: one of the updates reaches the server;
\* after the last one the call returns.
FinalizeTableCloudUpdate(c, k) ==
  /\ isCloud
  /\ calls[c].op = "finalizeTable"
  /\ calls[c].pc = "updateDoc"
  /\ k \in calls[c].updates
  /\ fsOrders' = CloudUpdateOrderStatus(fsOrders, k, PAID)
  /\ calls' = [calls EXCEPT ![c] =
                 IF calls[c].updates = {k} THEN Idle
                 ELSE [calls[c] EXCEPT !.updates = @ \ {k}]]
  /\ justOrdered' = Null
  /\ UNCHANGED <<envVars, db, now, localVars, fsProducts, fsTables, issued, writes,
                 viewVars>>

\* subscribeTables, cloud mode: onSnapshot hands the view the collection as
\* it is when the notification is made.
DeliverTablesCloud ==
  /\ Listening("tables")
  /\ TablesCallback(fsTables)
  /\ UNCHANGED <<envVars, db, now, localVars, cloudVars, tableId, myOrders, subs, active,
                 justOrdered>>

\* subscribeProducts, cloud mode: onSnapshot hands the view the products.
DeliverProductsCloud ==
  /\ Listening("products")
  /\ products' = ProductsCallback(ProductDocs(fsProducts))
  /\ UNCHANGED <<coreVars, cart, auxVars, handed, db, now, localVars,
                 cloudVars, viewVars, justOrdered>>

\* subscribeOrders, cloud mode: onSnapshot hands the view the orders.
DeliverOrdersCloud ==
  /\ Listening("orders")
  /\ myOrders' = OrdersCallback(OrderDocs(fsOrders), tableId)
  /\ UNCHANGED <<envVars, db, now, localVars, cloudVars, tableId, lastStatusRef,
                 sessionStatus, isSessionEnded, subs, active, lastSeen,
                 justOrdered>>

\* ------------------------------------------ products and orders (SpecStock)
\* Products and orders in both modes; table sessions and the view are left
\* out.  One product is saved and ordered (id "5" locally), by one staff
\* client and any number of customers.
StockIds      == {"5"}
StockInputs   == [id : StockIds, name : {"Suco"}, price : {5}, stock : Stocks]
StockTables   == {1}
StockStatuses == {PENDING, CANCELED}
StockClients  == {"A"}

NextStockLocal ==
  \/ Tick
  \/ FetchProductsLocal
  \/ \E product \in StockInputs : SaveProductLocal(product)
  \/ \E id \in StockIds : DeleteProductLocal(id)
  \/ \E t \in StockTables, items \in ItemLists(Range(LocalCatalog), StockIds),
        o \in Observations :
       CreateOrderLocal(t, items, o)
  \/ \E id \in LocalOrderIds, status \in StockStatuses :
       UpdateOrderStatusLocal(id, status)
  \/ \E t \in StockTables : FinalizeTableLocal(t)

NextStockCloud ==
  \/ \E id \in IssuedProductIds, product \in StockInputs :
       SaveProductCloudExisting([product EXCEPT !.id = id])
  \/ \E c \in StockClients, product \in StockInputs :
       SaveProductCloudQuery(c, product)
  \/ \E c \in StockClients : SaveProductCloudWrite(c)
  \/ \E id \in IssuedProductIds : DeleteProductCloud(id)
  \/ \E t \in StockTables,
        items \in ItemLists(CloudCatalog, DOMAIN fsProducts),
        o \in Observations :
       CreateOrderCloud(t, items, o)
  \/ \E w \in writes : ApplyStockWrite(w)
  \/ \E id \in CloudOrderIds, status \in StockStatuses :
       UpdateOrderStatusCloud(id, status)

NextStock == NextStockLocal \/ NextStockCloud

\* Both backends: init built the Firestore handle, or it did not.
SpecStock == InitMounted /\ [][NextStock]_vars

\* The local fallback alone: init built no Firestore handle.
InitLocal == InitMounted /\ ~isCloud

SpecStockLocal == InitLocal /\ [][NextStockLocal]_vars


\* ------------------------------------- properties of products and orders
\* The units of one product on the lines of a stored order.
RECURSIVE QuantityOf(_, _)
QuantityOf(lines, productId) ==
  IF lines = <<>> THEN 0
  ELSE (IF Head(lines).productId = productId THEN Head(lines).quantity ELSE 0)
       + QuantityOf(Tail(lines), productId)

Restocked(stored, lines) ==
  {[p EXCEPT !.stock = @ + QuantityOf(lines, p.id)] : p \in stored}

Lowered(stored, lines) ==
  {[p EXCEPT !.stock = @ - QuantityOf(lines, p.id)] : p \in stored}

LoweredToZero(stored, lines) ==
  {[p EXCEPT !.stock = Max(0, @ - QuantityOf(lines, p.id))] : p \in stored}

\* A step of updateOrderStatus(orderId, CANCELED), in either backend.
CancelStep(orderId) ==
  \/ UpdateOrderStatusLocal(orderId, CANCELED)
  \/ UpdateOrderStatusCloud(orderId, CANCELED)

\* The id is that of exactly one stored order.
NamesOneOrder(orderId) ==
  isCloud \/ Cardinality({i \in 1..Len(LocalOrders) : LocalOrders[i].id = orderId}) = 1

\* C1: in both backends, updateOrderStatus(orderId, CANCELED) on an order that
\* is not CANCELED adds every line item's quantity back to its product's
\* stock, once; on an order that is already CANCELED it leaves every stock
\* as it is.
C1_CancelRestoresOnce ==
  [][\A o \in getOrdersOnce :
       (NamesOneOrder(o.id) /\ CancelStep(o.id)) =>
         StoredProducts' = IF o.status # CANCELED
                             THEN Restocked(StoredProducts, o.items)
                             ELSE StoredProducts]_vars

\* The stock requests of an order that have not reached the server yet.
PendingWrites(orderId) == {w \in writes : w.order = orderId}

\* C2: createOrder followed by updateOrderStatus(order, CANCELED), with no
\* other operation on the products in between, leaves every stock as it was
\* before the order, and the order CANCELED.
C2_OrderThenCancel ==
  [][\A o \in getOrdersOnce :
       ( /\ justOrdered # Null
         /\ justOrdered[1].id = o.id
         /\ NamesOneOrder(o.id)
         /\ PendingWrites(o.id) = {}
         /\ CancelStep(o.id) )
       => /\ StoredProducts' = justOrdered[1].products
          /\ \A o2 \in getOrdersOnce' : o2.id = o.id => o2.status = CANCELED]_vars

\* C3: in local mode every product of every snapshot handed to a
\* subscribeProducts callback has a stock of zero or more.
C3_LocalStockNotNegative ==
  ~isCloud =>
    \A p \in Range(LocalFetchProductsSnapshot(lsProducts)) : p.stock >= 0

\* C3, its case: a local order for more units than were in stock has just
\* been stored, and the product is left with none.
C3_Witness ==
  /\ ~isCloud
  /\ justOrdered # Null
  /\ \E o \in getOrdersOnce, before \in justOrdered[1].products,
        p \in Range(LocalFetchProductsSnapshot(lsProducts)) :
       /\ o.id = justOrdered[1].id
       /\ before.id = p.id
       /\ QuantityOf(o.items, p.id) > before.stock
       /\ p.stock = 0

\* C4: in remote mode no product document has a stock below zero.
C4_CloudStockNotNegative ==
  isCloud => \A k \in DOMAIN fsProducts : fsProducts[k].stock >= 0

\* What createOrder stores besides the stock: one more order, PENDING, for the
\* table, with the lines asked for; the orders stored before are kept.
IsOrderFor(o, t, items) ==
  /\ o.tableId = t
  /\ o.status = PENDING
  /\ Len(o.items) = Len(items)
  /\ \A i \in 1..Len(items) :
       /\ o.items[i].productId = items[i].product.id
       /\ o.items[i].quantity = items[i].quantity

OneOrderAdded(t, items) ==
  IF isCloud
    THEN /\ \A k \in DOMAIN fsOrders :
              k \in DOMAIN fsOrders' /\ fsOrders'[k] = fsOrders[k]
         /\ \E k \in DOMAIN fsOrders' \ DOMAIN fsOrders :
              /\ DOMAIN fsOrders' = DOMAIN fsOrders \cup {k}
              /\ IsOrderFor(fsOrders'[k], t, items)
    ELSE /\ Len(LocalOrders') = Len(LocalOrders) + 1
         /\ SubSeq(LocalOrders', 1, Len(LocalOrders)) = LocalOrders
         /\ IsOrderFor(LocalOrders'[Len(LocalOrders')], t, items)

\* The inputs createOrder is called with.
OrderInputs ==
  ItemLists(StoredProducts, {p.id : p \in StoredProducts})

\* C10 as amended: createOrder adds one PENDING order for the table and keeps
\* the orders stored before.  In local mode the same call lowers the stock of
\* each ordered product by the ordered quantity, not below zero, and leaves
\* the other products alone.  In remote mode the call leaves the products
\* alone and sends one request per line; each request, when it reaches the
\* server, lowers its product's stock by exactly the line's quantity and
\* touches nothing else.
C10_CreateOrderEffect ==
  [][ /\ \A t \in StockTables, items \in OrderInputs, ob \in Observations :
           /\ CreateOrderLocal(t, items, ob) =>
                /\ OneOrderAdded(t, items)
                /\ StoredProducts' = LoweredToZero(StoredProducts, OrderItems(items))
           /\ CreateOrderCloud(t, items, ob) =>
                /\ OneOrderAdded(t, items)
                /\ StoredProducts' = StoredProducts
                /\ Cardinality(writes' \ writes) = Len(items)
      /\ \A w \in writes :
           ApplyStockWrite(w) =>
             /\ StoredProducts' = Lowered(StoredProducts, <<w>>)
             /\ fsOrders' = fsOrders ]_vars

\* C10 as stated: the call lowers each ordered product's stock by exactly the
\* ordered quantity (in remote mode through the requests it sends).
C10_ExactDecrement ==
  [][ /\ \A t \in StockTables, items \in OrderInputs, ob \in Observations :
           /\ CreateOrderLocal(t, items, ob) =>
                /\ OneOrderAdded(t, items)
                /\ StoredProducts' = Lowered(StoredProducts, OrderItems(items))
           /\ CreateOrderCloud(t, items, ob) =>
                /\ OneOrderAdded(t, items)
                /\ Cardinality(writes' \ writes) = Len(items)
      /\ \A w \in writes :
           ApplyStockWrite(w) =>
             /\ StoredProducts' = Lowered(StoredProducts, <<w>>)
             /\ fsOrders' = fsOrders ]_vars

\* C10, its case: in local mode an order for more units than were in stock
\* has been stored after an earlier order, and the product is left with none.
C10_Witness ==
  /\ ~isCloud
  /\ justOrdered # Null
  /\ Len(LocalOrders) = 2
  /\ LocalOrders[2].id = justOrdered[1].id
  /\ \E before \in justOrdered[1].products, p \in StoredProducts :
       /\ before.id = p.id
       /\ before.stock > 0
       /\ QuantityOf(LocalOrders[2].items, p.id) > before.stock
       /\ p.stock = 0


\* ------------------------------------------------ order totals (SpecTotals)
\* Every operation that could touch an order, in both modes, with the price
\* of the product changing between saves.
Prices         == {5, 8}
TotalsInputs   == [id : StockIds, name : {"Suco"}, price : Prices, stock : {MaxStock}]
TotalsStatuses == {CANCELED}

\* Orders of one line, for the largest quantity.
TotalsItems(catalog, ids) ==
  {<<i>> : i \in {l \in CartLines(catalog, ids) : l.quantity = MaxQty}}

NextTotalsLocal ==
  \/ \E product \in TotalsInputs : SaveProductLocal(product)
  \/ \E id \in StockIds : DeleteProductLocal(id)
  \/ \E t \in StockTables, items \in TotalsItems(Range(LocalCatalog), StockIds),
        o \in Observations :
       CreateOrderLocal(t, items, o)
  \/ \E id \in LocalOrderIds, status \in TotalsStatuses :
       UpdateOrderStatusLocal(id, status)
  \/ \E t \in StockTables, pm \in {"PIX"} : RequestTableCloseLocal(t, pm)
  \/ \E t \in StockTables : FinalizeTableLocal(t)

NextTotalsCloud ==
  \/ \E id \in IssuedProductIds, product \in TotalsInputs :
       SaveProductCloudExisting([product EXCEPT !.id = id])
  \/ \E c \in StockClients, product \in TotalsInputs :
       SaveProductCloudQuery(c, product)
  \/ \E c \in StockClients : SaveProductCloudWrite(c)
  \/ \E id \in IssuedProductIds : DeleteProductCloud(id)
  \/ \E t \in StockTables,
        items \in TotalsItems(CloudCatalog, DOMAIN fsProducts),
        o \in Observations :
       CreateOrderCloud(t, items, o)
  \/ \E w \in writes : ApplyStockWrite(w)
  \/ \E id \in CloudOrderIds, status \in TotalsStatuses :
       UpdateOrderStatusCloud(id, status)
  \/ \E t \in StockTables, pm \in {"PIX"} : RequestTableCloseCloud(t, pm)
  \/ \E c \in StockClients, t \in StockTables : FinalizeTableCloudDelete(c, t)
  \/ \E c \in StockClients : FinalizeTableCloudQuery(c)
  \/ \E c \in StockClients, k \in DOMAIN fsOrders : FinalizeTableCloudUpdate(c, k)

NextTotals == NextTotalsLocal \/ NextTotalsCloud

SpecTotals == Init /\ [][NextTotals]_vars

\* The sum of price * quantity over the lines of a stored order.
RECURSIVE LineSum(_)
LineSum(lines) ==
  IF lines = <<>> THEN 0
  ELSE Head(lines).price * Head(lines).quantity + LineSum(Tail(lines))

\* The sum of price * quantity over the lines createOrder is called with.
RECURSIVE InputSum(_)
InputSum(items) ==
  IF items = <<>> THEN 0
  ELSE Head(items).product.price * Head(items).quantity + InputSum(Tail(items))

\* The orders stored before a step are stored after it, with the same total
\* and the same lines.
OrdersKeepTotals ==
  IF isCloud
    THEN \A k \in DOMAIN fsOrders :
           /\ k \in DOMAIN fsOrders'
           /\ fsOrders'[k].total = fsOrders[k].total
           /\ fsOrders'[k].items = fsOrders[k].items
    ELSE /\ Len(LocalOrders') >= Len(LocalOrders)
         /\ \A i \in 1..Len(LocalOrders) :
              /\ LocalOrders'[i].total = LocalOrders[i].total
              /\ LocalOrders'[i].items = LocalOrders[i].items

\* The order a createOrder step has added carries the total of its inputs.
NewOrderTotal(items) ==
  IF isCloud
    THEN \A k \in DOMAIN fsOrders' \ DOMAIN fsOrders :
           fsOrders'[k].total = InputSum(items)
    ELSE LocalOrders'[Len(LocalOrders')].total = InputSum(items)

\* C6: every stored order's total is the sum of price * quantity over its
\* lines, as computed from the products and quantities it was created with,
\* and no step of any operation changes the total or the lines of an order
\* that is already stored.
C6_TotalsFixed ==
  [][ /\ \A o \in getOrdersOnce' : o.total = LineSum(o.items)
      /\ OrdersKeepTotals
      /\ \A t \in StockTables, items \in OrderInputs, ob \in Observations :
           (CreateOrderLocal(t, items, ob) \/ CreateOrderCloud(t, items, ob))
             => NewOrderTotal(items) ]_vars

\* C6, its case: an order of two units is stored and PAID, and the product it
\* names is now sold at another price than the order's line shows.
C6_Witness ==
  \E o \in getOrdersOnce, p \in StoredProducts :
    /\ o.status = PAID
    /\ Len(o.items) = 1
    /\ o.items[1].productId = p.id
    /\ o.items[1].quantity = 2
    /\ o.items[1].price # p.price
    /\ o.total = 2 * o.items[1].price


\* ---------------------------------------- saving by name (SpecSave)
\* Two staff clients save products under one of two names; none of the ids
\* they pass is the id of a Firestore document.
SaveNames  == {"Suco", "Batata Frita"}
SaveIds    == {"5", "6"}
SaveInputs == [id : SaveIds, name : SaveNames, price : {5}, stock : Stocks]

NextSave ==
  \/ \E product \in SaveInputs : SaveProductLocal(product)
  \/ \E c \in Clients, product \in SaveInputs : SaveProductCloudQuery(c, product)
  \/ \E c \in Clients : SaveProductCloudWrite(c)

SpecSave == Init /\ [][NextSave]_vars

\* The stored products that carry a name, and their stock taken together.
Named(stored, name) == {p \in stored : p.name = name}

RECURSIVE StockSum(_)
StockSum(stored) ==
  IF stored = {} THEN 0
  ELSE LET p == CHOOSE x \in stored : TRUE
       IN  p.stock + StockSum(stored \ {p})

\* After a save of a product there is one stored product of its name, and its
\* stock is the input's stock added to what was stored under the name.
SavedByName(product) ==
  /\ Cardinality(Named(StoredProducts', product.name)) = 1
  /\ StockSum(Named(StoredProducts', product.name)) =
       StockSum(Named(StoredProducts, product.name)) + product.stock

\* C5: a save of a product named N whose id is not that of a stored product
\* leaves exactly one stored product named N, holding the stock stored under
\* N before plus the input's stock; so two such saves, starting with no
\* product named N, leave one product with the sum of the two stocks.  In
\* local mode and in remote mode, however the calls of two clients interleave.
C5_SameNameMerges ==
  [][ /\ \A product \in SaveInputs :
           ( /\ SaveProductLocal(product)
             /\ \A p \in StoredProducts : p.id # product.id )
           => SavedByName(product)
      /\ \A c \in Clients :
           SaveProductCloudWrite(c) => SavedByName(calls[c].product) ]_vars


\* ----------------------------------------- table sessions (SpecSession)
\* Customers of two tables order and ask for the bill, staff cancel orders
\* and finalize tables, and the view of table 1 is handed snapshots of the
\* sessions.  The orders are for a product that is not in the catalog, so
\* that no stock is involved.
SessionItems    == {<<[product |-> UnknownProduct, quantity |-> 1]>>}
SessionStatuses == {CANCELED}
SessionClients  == {"A"}

NextSessionLocal ==
  \/ FetchTablesLocal
  \/ \E t \in Tables, pm \in PaymentMethods : RequestTableCloseLocal(t, pm)
  \/ \E t \in Tables : FinalizeTableLocal(t)
  \/ \E t \in Tables, items \in SessionItems, o \in Observations :
       CreateOrderLocal(t, items, o)
  \/ \E id \in LocalOrderIds, status \in SessionStatuses :
       UpdateOrderStatusLocal(id, status)

NextSessionCloud ==
  \/ DeliverTablesCloud
  \/ \E t \in Tables, pm \in PaymentMethods : RequestTableCloseCloud(t, pm)
  \/ \E c \in SessionClients, t \in Tables : FinalizeTableCloudDelete(c, t)
  \/ \E c \in SessionClients : FinalizeTableCloudQuery(c)
  \/ \E c \in SessionClients, k \in DOMAIN fsOrders : FinalizeTableCloudUpdate(c, k)
  \/ \E t \in Tables, items \in SessionItems, o \in Observations :
       CreateOrderCloud(t, items, o)
  \/ \E w \in writes : ApplyStockWrite(w)
  \/ \E id \in CloudOrderIds, status \in SessionStatuses :
       UpdateOrderStatusCloud(id, status)

NextSession == NextSessionLocal \/ NextSessionCloud

SpecSession == InitMounted /\ [][NextSession]_vars

\* A step that hands the view a snapshot of the sessions, and the snapshot.
Delivery  == FetchTablesLocal \/ DeliverTablesCloud
Delivered == IF isCloud THEN fsTables ELSE LocalFetchTablesSnapshot(lsTables)

\* The snapshot handed to the view just before showed its table in
\* CLOSING_REQUESTED.
ShowedClosingRequested ==
  lastSeen # Null /\ lastSeen[1].status = CLOSING_REQUESTED

\* C7: the view's session is ended by a snapshot exactly when the snapshot
\* has no record for the view's table and the snapshot before it showed the
\* table in CLOSING_REQUESTED; no other step ends it.
C7_EndsOnTransition ==
  [][ (~isSessionEnded /\ isSessionEnded')
        <=> ( /\ ~isSessionEnded
              /\ Delivery
              /\ ~MapHas(Delivered, TableKey(tableId))
              /\ ShowedClosingRequested ) ]_vars

\* C7, its case: the view has been handed a snapshot showing its table in
\* CLOSING_REQUESTED and then one without it, and its session is ended.
C7_Witness ==
  /\ isSessionEnded
  /\ lastSeen = Null
  /\ lastStatusRef = OPEN

\* The session records of the active backend, by table key.
Sessions == IF isCloud THEN fsTables ELSE LocalFetchTablesSnapshot(lsTables)

\* The session records kept for table t.
SessionsOf(sessions, t) == {k \in DOMAIN sessions : k = TableKey(t)}

\* A requestTableClose(t, m) step of either backend.
RequestTableCloseStep(t, m) ==
  RequestTableCloseLocal(t, m) \/ RequestTableCloseCloud(t, m)

\* C11: requestTableClose(t, m) leaves exactly one session record for t, with
\* status CLOSING_REQUESTED and payment method m, whether or not t had a
\* record before, and leaves the records of the other tables as they were;
\* after every step every record belongs to a table and no table has more
\* than one.
C11_RequestCloseUpserts ==
  [][ /\ \A t \in Tables, m \in PaymentMethods :
           RequestTableCloseStep(t, m) =>
             /\ Cardinality(SessionsOf(Sessions', t)) = 1
             /\ Sessions'[TableKey(t)] =
                  [status |-> CLOSING_REQUESTED, paymentMethod |-> m]
             /\ DOMAIN Sessions' = DOMAIN Sessions \cup {TableKey(t)}
             /\ \A k \in DOMAIN Sessions \ {TableKey(t)} :
                  Sessions'[k] = Sessions[k]
      /\ \A k \in DOMAIN Sessions' : \E t \in Tables : k = TableKey(t)
      /\ \A t \in Tables : Cardinality(SessionsOf(Sessions', t)) <= 1 ]_vars

\* C11, its case: the view was shown its table asking to pay by PIX, a
\* second request has since changed the payment method to CASH, and the
\* other table has its own record.
C11_Witness ==
  /\ lastSeen # Null
  /\ lastSeen[1].paymentMethod = "PIX"
  /\ MapHas(Sessions, TableKey(tableId))
  /\ Sessions[TableKey(tableId)].paymentMethod = "CASH"
  /\ MapHas(Sessions, TableKey(2))

\* -------------------------------------------- subscriptions (SpecSubscribe)
\* The customer view subscribes (its effect runs), is handed snapshots by its
\* timers or listeners, and unsubscribes (the effect's cleanup), while
\* customers ask for the bill and order and staff finalize tables.
NextSubscribeLocal ==
  \/ ViewEffectLocal
  \/ FetchProductsLocal
  \/ FetchOrdersLocal
  \/ FetchTablesLocal
  \/ \E t \in Tables, pm \in PaymentMethods : RequestTableCloseLocal(t, pm)
  \/ \E t \in Tables : FinalizeTableLocal(t)
  \/ \E t \in Tables, items \in SessionItems, o \in Observations :
       CreateOrderLocal(t, items, o)

NextSubscribeCloud ==
  \/ ViewEffectCloud
  \/ DeliverOrdersCloud
  \/ DeliverTablesCloud
  \/ \E t \in Tables, pm \in PaymentMethods : RequestTableCloseCloud(t, pm)
  \/ \E t \in Tables, items \in SessionItems, o \in Observations :
       CreateOrderCloud(t, items, o)
  \/ \E w \in writes : ApplyStockWrite(w)

NextSubscribe == ViewCleanup \/ NextSubscribeLocal \/ NextSubscribeCloud

SpecSubscribe == Init /\ [][NextSubscribe]_vars

\* A step in which a timer or a listener runs the callback of a subscription
\* of this kind.
CallbackRuns(kind) ==
  CASE kind = "products" -> FetchProductsLocal
    [] kind = "orders"   -> FetchOrdersLocal \/ DeliverOrdersCloud
    [] kind = "tables"   -> FetchTablesLocal \/ DeliverTablesCloud

\* C12: once the unsubscribe handle of a subscription has been called, no
\* timer or listener of it is registered any more, and whenever a timer or a
\* listener runs a callback it is for a subscription whose handle has not
\* been called.
C12_NoCallbackAfterUnsubscribe ==
  [][ /\ \A s \in DOMAIN subs' : subs'[s].called => s \notin active'
      /\ \A kind \in Kinds :
           CallbackRuns(kind) =>
             \E s \in active : subs[s].kind = kind /\ ~subs[s].called ]_vars

\* C12, its case: the view has unsubscribed, its table has asked for the bill
\* and an order was placed since, and the view has been told of neither: no
\* timer is left to run its callbacks.
C12_Witness ==
  /\ subs # <<>>
  /\ \A s \in DOMAIN subs : subs[s].called
  /\ active = {}
  /\ MapHas(Sessions, TableKey(tableId))
  /\ \E o \in getOrdersOnce : o.tableId = tableId
  /\ sessionStatus = OPEN
  /\ myOrders = {}

\* ------------------------------------------------ configuration (SpecConfig)
\* From the load of the page: init and saveConfig with any configuration,
\* clearConfig, the view subscribing and unsubscribing, and bill requests for
\* its table.
ConfigTables == {1}

NextConfig ==
  \/ \E config \in {Null} \cup {<<c>> : c \in Configs}, built \in BOOLEAN :
       AppStart(config, built)
  \/ \E config \in Configs, built \in BOOLEAN : SaveConfig(config, built)
  \/ ClearConfig
  \/ ViewEffectLocal
  \/ ViewEffectCloud
  \/ ViewCleanup
  \/ FetchTablesLocal
  \/ DeliverTablesCloud
  \/ \E t \in ConfigTables, pm \in PaymentMethods : RequestTableCloseLocal(t, pm)
  \/ \E t \in ConfigTables, pm \in PaymentMethods : RequestTableCloseCloud(t, pm)

SpecConfig == InitStartup /\ [][NextConfig]_vars

\* The backend the mutations write to.
MutationBackend == IF isCloud THEN CloudBackend ELSE LocalBackend

\* C14: every registered subscription reads from the backend the mutations
\* write to.
C14_OneBackend ==
  \A s \in active : subs[s].backend = MutationBackend

\* ------------------------------ finalizeTable, one call at a time (SpecFinalize)
\* The same operations, with no other write served while a finalizeTable
\* call is between its requests: what a call does when it runs alone.  The
\* view is handed snapshots at any time.
Quiet == \A c \in Clients : calls[c] = Idle

FinalizeClients == {"A"}
FinalizeStatuses == {PREPARING, CANCELED}

NextFinalizeLocal ==
  \/ FetchTablesLocal
  \/ \E t \in Tables, pm \in PaymentMethods : RequestTableCloseLocal(t, pm)
  \/ \E t \in Tables : FinalizeTableLocal(t)
  \/ \E t \in Tables, items \in SessionItems, o \in Observations :
       CreateOrderLocal(t, items, o)
  \/ \E id \in LocalOrderIds, status \in FinalizeStatuses :
       UpdateOrderStatusLocal(id, status)

NextFinalizeCloud ==
  \/ DeliverTablesCloud
  \/ \E t \in Tables, pm \in PaymentMethods :
       Quiet /\ RequestTableCloseCloud(t, pm)
  \/ \E t \in Tables, items \in SessionItems, o \in Observations :
       Quiet /\ CreateOrderCloud(t, items, o)
  \/ \E id \in CloudOrderIds, status \in FinalizeStatuses :
       Quiet /\ UpdateOrderStatusCloud(id, status)
  \/ \E w \in writes : ApplyStockWrite(w)
  \/ \E c \in FinalizeClients, t \in Tables : FinalizeTableCloudDelete(c, t)
  \/ \E c \in FinalizeClients : FinalizeTableCloudQuery(c)
  \/ \E c \in FinalizeClients, k \in DOMAIN fsOrders : FinalizeTableCloudUpdate(c, k)

NextFinalize == NextFinalizeLocal \/ NextFinalizeCloud

SpecFinalize == InitMounted /\ [][NextFinalize]_vars

\* What finalizeTable(t) makes of the sessions and the orders it finds: no
\* session for t, the other sessions as they were; the orders of t that were
\* neither CANCELED nor PAID now PAID, every other order as it was.  Orders
\* are a list (local) or a collection (remote): a function either way.
Finalized(t, tablesBefore, ordersBefore, tablesAfter, ordersAfter) ==
  /\ ~MapHas(tablesAfter, TableKey(t))
  /\ DOMAIN tablesAfter = DOMAIN tablesBefore \ {TableKey(t)}
  /\ \A k \in DOMAIN tablesAfter : tablesAfter[k] = tablesBefore[k]
  /\ DOMAIN ordersAfter = DOMAIN ordersBefore
  /\ \A k \in DOMAIN ordersBefore :
       ordersAfter[k] =
         IF /\ ordersBefore[k].tableId = t
            /\ ordersBefore[k].status # CANCELED
            /\ ordersBefore[k].status # PAID
           THEN [ordersBefore[k] EXCEPT !.status = PAID]
           ELSE ordersBefore[k]

\* What a step taken while a remote finalizeTable(t) is under way may change:
\* the session of t may go, an order of t that is neither CANCELED nor PAID
\* may become PAID, and nothing else.
FinalizingStep(t) ==
  /\ DOMAIN fsTables \ {TableKey(t)} \subseteq DOMAIN fsTables'
  /\ DOMAIN fsTables' \subseteq DOMAIN fsTables
  /\ \A k \in DOMAIN fsTables' : fsTables'[k] = fsTables[k]
  /\ DOMAIN fsOrders' = DOMAIN fsOrders
  /\ \A k \in DOMAIN fsOrders :
       \/ fsOrders'[k] = fsOrders[k]
       \/ /\ fsOrders[k].tableId = t
          /\ fsOrders[k].status # CANCELED
          /\ fsOrders[k].status # PAID
          /\ fsOrders'[k] = [fsOrders[k] EXCEPT !.status = PAID]

\* The table a client's finalizeTable call is for, over a step of the call.
Finalizing(c) == calls[c].op = "finalizeTable" \/ calls'[c].op = "finalizeTable"
FinalizingTable(c) ==
  IF calls[c].op = "finalizeTable" THEN calls[c].tableId ELSE calls'[c].tableId

\* A step that completes a remote finalizeTable call.
Completes(c) == calls[c].op = "finalizeTable" /\ calls'[c] = Idle

\* C8: when finalizeTable(t) completes there is no session record for t,
\* every order of t that was neither CANCELED nor PAID is PAID, every
\* CANCELED order of t is still CANCELED, and the orders and sessions of the
\* other tables are as they were.  Local mode: the call is one step.  Remote
\* mode: from the call's first request to its completion the session of t
\* goes, orders of t that are neither CANCELED nor PAID become PAID and
\* nothing else changes, and at completion t has no session and no order
\* that is neither CANCELED nor PAID.
C8_FinalizeEffect ==
  [][ /\ \A t \in Tables :
           FinalizeTableLocal(t) =>
             Finalized(t, LocalFetchTablesSnapshot(lsTables), LocalOrders,
                       LocalFetchTablesSnapshot(lsTables'), LocalOrders')
      /\ \A c \in Clients :
           Finalizing(c) =>
             /\ FinalizingStep(FinalizingTable(c))
             /\ FinalizeTableCloudDelete(c, FinalizingTable(c)) =>
                  ~MapHas(fsTables', TableKey(FinalizingTable(c)))
             /\ Completes(c) =>
                  /\ ~MapHas(fsTables', TableKey(FinalizingTable(c)))
                  /\ CloudOrdersToPay(fsOrders', FinalizingTable(c)) = {} ]_vars

\* C8, its case: table 1 has been finalized in remote mode; of its two
\* orders the one that was CANCELED still is and the other is PAID, while
\* table 2 still has its session.
C8_Witness ==
  /\ isCloud
  /\ Quiet
  /\ ~MapHas(fsTables, TableKey(1))
  /\ MapHas(fsTables, TableKey(2))
  /\ \E k1, k2 \in DOMAIN fsOrders :
       /\ fsOrders[k1].tableId = 1 /\ fsOrders[k1].status = CANCELED
       /\ fsOrders[k2].tableId = 1 /\ fsOrders[k2].status = PAID

\* The orders of a table that are neither PAID nor CANCELED.
OpenOrders(t) ==
  {o \in getOrdersOnce : o.tableId = t /\ o.status # PAID /\ o.status # CANCELED}

\* C9: finalizeTable is atomic for the customer: while a finalizeTable call
\* for the view's table is under way, the view is never shown the session
\* gone after CLOSING_REQUESTED with an order of the table still neither
\* PAID nor CANCELED.
C9_FinalizeAtomic ==
  \A c \in Clients :
    ( /\ calls[c].op = "finalizeTable"
      /\ calls[c].tableId = tableId
      /\ isSessionEnded )
    => OpenOrders(tableId) = {}

\* The status of every stored order of the active backend, by its place in
\* the list (local) or its document id (remote).
StatusOf ==
  IF isCloud THEN [k \in DOMAIN fsOrders |-> fsOrders[k].status]
  ELSE [i \in DOMAIN LocalOrders |-> LocalOrders[i].status]

\* The place of a status on the way PENDING, PREPARING, DELIVERED, PAID.
Stage(status) ==
  CASE status = PENDING   -> 1
    [] status = PREPARING -> 2
    [] status = DELIVERED -> 3
    [] status = PAID      -> 4
    [] status = CANCELED  -> 5

\* A move the life cycle allows: forward on the way to PAID, or to CANCELED
\* from a status that is neither PAID nor CANCELED.
LifeCycleMove(from, to) ==
  \/ to = from
  \/ from # CANCELED /\ to # CANCELED /\ Stage(from) < Stage(to)
  \/ to = CANCELED /\ from \notin {PAID, CANCELED}

\* C13: the status of a stored order only moves forward along PENDING,
\* PREPARING, DELIVERED, PAID, or to CANCELED from a status that is neither
\* PAID nor CANCELED; the status of a PAID or CANCELED order never changes.
C13_StatusLifeCycle ==
  [][ \A k \in DOMAIN StatusOf :
        k \in DOMAIN StatusOf' /\ LifeCycleMove(StatusOf[k], StatusOf'[k]) ]_vars

\* A compiled-in configuration whose key has been filled in.
FilledIn(config) == config.apiKey # "" /\ ~Includes(config.apiKey, "COLAR_")

\* The configuration init is to select: the caller's; else the compiled-in
\* one when its key is filled in; else the stored one when it is well formed;
\* else none.
Selected(config) ==
  IF config # Null THEN config
  ELSE IF FilledIn(firebaseConfig) THEN <<firebaseConfig>>
  ELSE IF lsConfig # Null /\ Parses(lsConfig) THEN <<JSONparse(lsConfig)>>
  ELSE Null

\* What a call of init is to do, given whether the handle can be built.
InitDoes(config, built) ==
  LET selected == Selected(config)
      succeeds == selected # Null /\ selected[1].apiKey # "" /\ built
  IN  /\ returned' = <<succeeds>>
      /\ succeeds => db' = GetFirestore(selected[1])
      /\ ~succeeds => db' = db

BothStatuses == {PREPARING, CANCELED}
BothNames    == {"Suco"}
BothInputs   == [id : SaveIds, name : BothNames, price : {5}, stock : Stocks]

\* finalizeTable, cloud branch, steps 2 and 3 with every update applied.
CloudPayAll(collection, t) ==
  [k \in DOMAIN collection |->
     IF k \in CloudOrdersToPay(collection, t)
       THEN CloudUpdateOrderStatus(collection, k, PAID)[k]
       ELSE collection[k]]

\* The cart line for some quantity of the product of this name, when that
\* many are in stock.
LineOf(catalog, name, quantity) ==
  {<<[product |-> [id |-> p.id, name |-> p.name, price |-> p.price],
      quantity |-> quantity]>> :
     p \in {c \in catalog : c.name = name /\ c.stock >= quantity}}

BothSaveProduct(product) ==
  /\ \A p \in Range(LocalCatalog) : p.id # product.id
  /\ lsProducts' = LocalSaveProduct(lsProducts, product)
  /\ WithinMaxStored(LocalCatalog, JSONparse(lsProducts'))
  /\ LET hits == CloudQueryByName(fsProducts, product.name)
     IN  IF hits = {}
           THEN /\ issued < MaxProducts
                /\ fsProducts' = CloudAddProduct(fsProducts, product, issued + 1)
                /\ issued' = issued + 1
           ELSE /\ \E k \in hits :
                     fsProducts' = CloudMergeProduct(
                                     fsProducts, ExistingDoc(fsProducts, k), product)
                /\ UNCHANGED issued
  /\ CloudWithinMaxStored(fsProducts, fsProducts')
  /\ handed' = IF lsProducts' = lsProducts THEN handed ELSE Null
  /\ UNCHANGED <<cfgVars, db, now, lsOrders, lsTables, fsOrders, fsTables, writes,
                 calls, viewVars, justOrdered>>

BothDeleteProduct(name) ==
  /\ \E p \in Range(LocalCatalog) :
       /\ p.name = name
       /\ lsProducts' = LocalDeleteProduct(lsProducts, p.id)
  /\ \E k \in CloudQueryByName(fsProducts, name) :
       fsProducts' = CloudDeleteProduct(fsProducts, k)
  /\ handed' = IF lsProducts' = lsProducts THEN handed ELSE Null
  /\ UNCHANGED <<cfgVars, db, now, lsOrders, lsTables, fsOrders, fsTables, issued,
                 writes, calls, viewVars, justOrdered>>

BothCreateOrder(t, name, quantity) ==
  /\ Len(LocalOrders) < MaxOrders
  /\ \A o \in Range(LocalOrders) : o.timestamp # now
  /\ \E items \in LineOf(Range(LocalCatalog), name, quantity) :
       /\ lsProducts' = LocalCreateOrderProducts(lsProducts, items)
       /\ lsOrders' = LocalCreateOrderOrders(
                        lsOrders, OrderData(t, items, Undefined, now), now)
  /\ \E items \in LineOf(CloudCatalog, name, quantity) :
       /\ fsOrders' = CloudAddOrder(
                        fsOrders, OrderData(t, items, Undefined, now),
                        issuedOrders + 1)
       /\ fsProducts' = CloudIncrementStock(
                          fsProducts, items[1].product.id, items[1].quantity)
  /\ handed' = IF lsProducts' = lsProducts THEN handed ELSE Null
  /\ UNCHANGED <<cfgVars, db, now, lsTables, fsTables, issued, writes, calls,
                 viewVars, justOrdered>>

BothUpdateOrderStatus(n, status) ==
  /\ n \in 1..Len(LocalOrders)
  /\ lsProducts' = LocalUpdateOrderStatusProducts(
                     lsProducts, lsOrders, LocalOrders[n].id, status)
  /\ lsOrders' = LocalUpdateOrderStatusOrders(lsOrders, LocalOrders[n].id, status)
  /\ WithinMaxStored(LocalCatalog, JSONparse(OrElse(lsProducts', JSONstringify(<<>>))))
  /\ fsOrders' = CloudUpdateOrderStatus(fsOrders, AutoId("O", n), status)
  /\ handed' = IF lsProducts' = lsProducts THEN handed ELSE Null
  /\ UNCHANGED <<cfgVars, db, now, lsTables, fsProducts, fsTables, issued, writes,
                 calls, viewVars, justOrdered>>

BothRequestTableClose(t, paymentMethod) ==
  /\ lsTables' = LocalRequestTableClose(lsTables, t, paymentMethod)
  /\ fsTables' = CloudRequestTableClose(fsTables, t, paymentMethod)
  /\ billing' = BilledRequested(t)
  /\ UNCHANGED <<baseVars, handed, thrown, db, now, lsProducts, lsOrders, fsProducts, fsOrders,
                 issued, writes, calls, viewVars, justOrdered>>

BothFinalizeTable(t) ==
  /\ lsTables' = LocalFinalizeTableTables(lsTables, t)
  /\ lsOrders' = LocalFinalizeTableOrders(lsOrders, t)
  /\ fsTables' = CloudDeleteTable(fsTables, t)
  /\ fsOrders' = CloudPayAll(fsOrders, t)
  /\ billing' = BilledFinalized(t)
  /\ UNCHANGED <<baseVars, handed, thrown, db, now, lsProducts, fsProducts, issued, writes, calls,
                 viewVars, justOrdered>>

NextBoth ==
  \/ Tick
  \/ \E product \in BothInputs : BothSaveProduct(product)
  \/ \E name \in BothNames : BothDeleteProduct(name)
  \/ \E t \in Tables, name \in BothNames, q \in Quantities :
       BothCreateOrder(t, name, q)
  \/ \E n \in 1..MaxOrders, status \in BothStatuses :
       BothUpdateOrderStatus(n, status)
  \/ \E t \in StockTables, pm \in PaymentMethods : BothRequestTableClose(t, pm)
  \/ \E t \in StockTables : BothFinalizeTable(t)

InitBoth == Init /\ ~isCloud

SpecBoth == InitBoth /\ [][NextBoth]_vars

\* The stock kept under each product name.
StocksByName(stored) == {<<p.name, p.stock>> : p \in stored}

\* The backends hold the same stocks, order statuses and session records.
BackendsAgree ==
  /\ StocksByName(Range(LocalCatalog)) = StocksByName(CloudCatalog)
  /\ Len(LocalOrders) = Cardinality(DOMAIN fsOrders)
  /\ \A n \in 1..Len(LocalOrders) :
       /\ MapHas(fsOrders, AutoId("O", n))
       /\ LocalOrders[n].status = fsOrders[AutoId("O", n)].status
  /\ LocalFetchTablesSnapshot(lsTables) = fsTables

\* C15: after the same series of calls, each completed before the next, the
\* local and the remote backend hold the same product stocks, the same order
\* statuses and the same session records.
C15_BackendsAgree == BackendsAgree

\* ------------------------------------------- the storage layer (SpecStorage)
\* safeStorage used on two keys with two texts, every call on localStorage
\* succeeding or throwing as it may.
StorageKeys  == {"beach_app_products", "beach_app_tables"}
StorageTexts == {"[]", "{}"}

\* The last getItem still stands unless its key is written.
GotAfterWrite(key) ==
  IF got # Null /\ got[1].key = key THEN Null ELSE got

GetItem(key, ok) ==
  /\ got' = <<[key |-> key, value |-> SafeGetItem(localStorage, memoryStore, key, ok)]>>
  /\ UNCHANGED <<firebaseConfig, lsConfig, returned, localStorage, memoryStore,
                 lastWrite, aiVars, handed, auxVars, cartVars, db, now, localVars, cloudVars, viewVars,
                 justOrdered>>

SetItem(key, value, ok) ==
  /\ memoryStore' = SafeSetItemMemory(memoryStore, key, value)
  /\ localStorage' = SafeSetItemDisk(localStorage, key, value, ok)
  /\ lastWrite' = MapPut(lastWrite, key, <<value>>)
  /\ got' = GotAfterWrite(key)
  /\ UNCHANGED <<firebaseConfig, lsConfig, returned, aiVars, handed, auxVars, cartVars, db, now, localVars,
                 cloudVars, viewVars, justOrdered>>

RemoveItem(key, ok) ==
  /\ memoryStore' = SafeRemoveItemMemory(memoryStore, key)
  /\ localStorage' = SafeRemoveItemDisk(localStorage, key, ok)
  /\ lastWrite' = MapPut(lastWrite, key, Null)
  /\ got' = GotAfterWrite(key)
  /\ UNCHANGED <<firebaseConfig, lsConfig, returned, aiVars, handed, auxVars, cartVars, db, now, localVars,
                 cloudVars, viewVars, justOrdered>>

NextStorage ==
  \/ \E key \in StorageKeys, ok \in BOOLEAN : GetItem(key, ok)
  \/ \E key \in StorageKeys, value \in StorageTexts, ok \in BOOLEAN :
       SetItem(key, value, ok)
  \/ \E key \in StorageKeys, ok \in BOOLEAN : RemoveItem(key, ok)

SpecStorage == Init /\ [][NextStorage]_vars

\* C16: whatever calls on localStorage have failed, a getItem(k) made after a
\* setItem(k, v) and before the next write of k returns v, and one made
\* after a removeItem(k) returns null.
C16_ReadYourWrites ==
  (got # Null /\ MapHas(lastWrite, got[1].key))
    => got[1].value = lastWrite[got[1].key]

\* --------------------------------------------------- failed remote writes
\* A stock request fails at the server: updateDoc finds no document.
StockWriteFails(w) == ~MapHas(fsProducts, w.productId)

\* The createOrder call that stored this order has returned to its caller
\* without an error: it returns once addDoc has resolved and the stock
\* requests have been sent, none of them awaited.
CreateOrderResolved(orderId) == MapHas(fsOrders, orderId)

\* C17: a remote write that fails makes the call it belongs to fail towards
\* its caller: no stock request of createOrder fails once the call has
\* returned without an error.
C17_WriteFailureReachesCaller ==
  [][ \A w \in writes :
        (ApplyStockWrite(w) /\ StockWriteFails(w))
          => ~CreateOrderResolved(w.order) ]_vars

\* --------------------------------------------------- the report (SpecReport)
\* generateDailyReport is called with sales data that can or cannot be
\* written as JSON, with or without an API key in the environment, and the
\* external service answers with a text, with no text, or rejects.
ApiKeys   == {"", "gemini-key"}
SalesData == {"[]", "[{total: 5}]", "[{total: 5}, {total: 7}]", Circular}
Outcomes  ==
  {[rejects |-> TRUE, text |-> Undefined]}
    \cup [rejects : {FALSE}, text : {"# Resumo", Undefined}]

\* A call of generateDailyReport, from start to end.
DailyReport(salesData, outcome) ==
  LET end == GenerateDailyReport(apiKey, salesData, outcome)
  IN  /\ end.sent => Len(requests) < MaxRequests
      /\ report' = <<[raised |-> end.raised, value |-> end.value]>>
      /\ requests' = IF end.sent THEN Append(requests, Prompt(salesData))
                                 ELSE requests
      /\ UNCHANGED <<firebaseConfig, lsConfig, returned, storeVars, apiKey, handed, auxVars, cartVars, db,
                     now, localVars, cloudVars, viewVars, justOrdered>>

NextReport ==
  \E salesData \in SalesData, outcome \in Outcomes : DailyReport(salesData, outcome)

\* The module has been loaded with or without an API key.
InitReport ==
  /\ db = NoDb
  /\ now = 0
  /\ lsProducts = Null
  /\ lsOrders = Null
  /\ lsTables = Null
  /\ fsProducts = EmptyMap
  /\ fsOrders = EmptyMap
  /\ fsTables = EmptyMap
  /\ issued = 0
  /\ writes = {}
  /\ calls = [c \in Clients |-> Idle]
  /\ tableId = 1
  /\ lastStatusRef = OPEN
  /\ sessionStatus = OPEN
  /\ isSessionEnded = FALSE
  /\ myOrders = {}
  /\ subs = <<>>
  /\ active = {}
  /\ lastSeen = Null
  /\ justOrdered = Null
  /\ firebaseConfig = [apiKey |-> PlaceholderKey]
  /\ lsConfig = Null
  /\ returned = Null
  /\ localStorage = EmptyMap
  /\ memoryStore = EmptyMap
  /\ got = Null
  /\ lastWrite = EmptyMap
  /\ apiKey \in ApiKeys
  /\ report = Null
  /\ requests = <<>>
  /\ thrown = {}
  /\ products = {}
  /\ cart = <<>>
  /\ billing = [t \in Tables |-> "none"]
  /\ handed = Null

SpecReport == InitReport /\ [][NextReport]_vars

\* C18: a call of generateDailyReport never raises; without an API key it
\* returns the 'configuration incomplete' text and sends nothing to the
\* external service; with one, it returns the 'generation failed' text when
\* the request cannot be built or the service rejects it, and the text of
\* the answer otherwise.
C18_ReportNeverRaises ==
  [][ \A salesData \in SalesData, outcome \in Outcomes :
        DailyReport(salesData, outcome) =>
          /\ ~report'[1].raised
          /\ apiKey = "" =>
               report'[1].value = ConfigIncomplete /\ requests' = requests
          /\ (apiKey # "" /\ salesData = Circular) =>
               report'[1].value = GenerationFailed /\ requests' = requests
          /\ (apiKey # "" /\ salesData # Circular /\ outcome.rejects) =>
               report'[1].value = GenerationFailed
          /\ (apiKey # "" /\ salesData # Circular /\ ~outcome.rejects) =>
               report'[1].value = outcome.text ]_vars

\* C18, its case: with an API key, a request was sent, the service
\* rejected it, and the call returned the 'generation failed' text.
C18_Witness ==
  /\ apiKey # ""
  /\ requests # <<>>
  /\ report = <<[raised |-> FALSE, value |-> GenerationFailed]>>

\* ------------------------------------------ the starter catalog (SpecSeed)
\* Local mode, from an empty store: the view mounts and unmounts, its
\* products timer polls, and the staff delete and save products, before or
\* after the first fetch.
SeedIds    == {p.id : p \in Range(INITIAL_PRODUCTS)}
SeedInputs == {[id |-> "5", name |-> "Suco", price |-> 5, stock |-> 1]}

NextSeed ==
  \/ ViewEffectLocal
  \/ ViewCleanup
  \/ FetchProductsLocal
  \/ \E id \in SeedIds : DeleteProductLocal(id)
  \/ \E product \in SeedInputs : SaveProductLocal(product)

InitSeed == Init /\ ~isCloud

SpecSeed == InitSeed /\ [][NextSeed]_vars

\* C20: in local mode a products fetch that finds no stored data has the
\* starter catalog in the store when it invokes the callback and hands the
\* callback exactly that catalog; a fetch that finds stored data, an empty
\* list included, hands over the stored list and leaves the store as it
\* found it.
C20_SeedsOnlyWhenAbsent ==
  handed # Null =>
    IF handed[1].found = Null
      THEN /\ handed[1].store = JSONstringify(INITIAL_PRODUCTS)
           /\ handed[1].list = INITIAL_PRODUCTS
           /\ lsProducts = handed[1].store
      ELSE /\ handed[1].store = handed[1].found
           /\ handed[1].list = JSONparse(handed[1].found)
           /\ lsProducts = handed[1].found

\* C20, its case: the staff deleted every product and a fetch has run since:
\* it found the empty list and the store still holds it.
C20_Witness ==
  /\ handed # Null
  /\ handed[1].found = JSONstringify(<<>>)
  /\ lsProducts = JSONstringify(<<>>)

\* ------------------------------------------- merging by name (SpecMerge)
\* One staff client saves products of one name, each with a description and
\* an image (the image field may be left empty), in local or in remote mode;
\* every call is complete before the next begins.
MergeClients == {"A"}
MergeInputs  ==
  [id : SaveIds, name : {"Suco"}, price : {5, 6}, stock : {1},
   description : {"Natural", "Gelado"},
   imageUrl : {"", "suco.png", "novo.png"}]

NextMerge ==
  \/ \E product \in MergeInputs : SaveProductLocal(product)
  \/ \E c \in MergeClients, product \in MergeInputs :
       SaveProductCloudQuery(c, product)
  \/ \E c \in MergeClients : SaveProductCloudWrite(c)

SpecMerge == Init /\ [][NextMerge]_vars

\* The stored product of the incoming product's name has taken the incoming
\* stock on top of its own, and the incoming price, description and image.
MergedInto(product) ==
  \E before \in Named(StoredProducts, product.name),
     after \in Named(StoredProducts', product.name) :
       /\ after.id = before.id
       /\ after.stock = before.stock + product.stock
       /\ after.price = product.price
       /\ after.description = product.description
       /\ after.imageUrl = product.imageUrl

\* C21: a save that merges the incoming product into the stored product of
\* its name adds the incoming stock to the stored one and overwrites the
\* stored price, description and image with the incoming ones, in local and
\* in remote mode.
C21_MergeOverwrites ==
  [][ /\ \A product \in MergeInputs :
           ( /\ SaveProductLocal(product)
             /\ \A p \in StoredProducts : p.id # product.id
             /\ Named(StoredProducts, product.name) # {} )
           => MergedInto(product)
      /\ \A c \in MergeClients :
           (SaveProductCloudWrite(c) /\ calls[c].existingDoc # Null)
           => MergedInto(calls[c].product) ]_vars

\* --------------------------------- unreadable stored values (SpecFault)
\* Local mode: the view mounts and unmounts and its timers poll while the
\* texts under the three keys are, from outside, made unreadable or removed.
NextFault ==
  \/ ViewEffectLocal
  \/ ViewEffectLocalThrows
  \/ ViewCleanup
  \/ FetchProductsLocal
  \/ FetchOrdersLocal
  \/ FetchTablesLocal
  \/ \E kind \in Kinds : FetchLocalThrows(kind)
  \/ \E kind \in Kinds : StoreMalformed(kind)
  \/ \E kind \in Kinds : StoreCleared(kind)

SpecFault == InitSeed /\ [][NextFault]_vars

\* C22: no exception of the subscription path reaches the caller of
\* subscribe, whatever the stored values are: every subscribe call returns
\* its handle.
C22_SubscribeNeverThrows == "subscribe" \notin thrown

\* ------------------------------------------- closing a table (SpecClose)
\* A mounted view of table 1 stays subscribed while bills are asked for and
\* tables are finalized.  Every step that can be taken is taken in the end:
\* the polling timer fires every two seconds, a registered listener is
\* notified of the latest data, and a call in progress runs to its end.
CloseClients == {"A"}

NextClose ==
  \/ FetchTablesLocal
  \/ DeliverTablesCloud
  \/ \E t \in Tables, pm \in PaymentMethods : RequestTableCloseLocal(t, pm)
  \/ \E t \in Tables, pm \in PaymentMethods : RequestTableCloseCloud(t, pm)
  \/ \E t \in Tables : FinalizeTableLocal(t)
  \/ \E c \in CloseClients, t \in Tables : FinalizeTableCloudDelete(c, t)
  \/ \E c \in CloseClients : FinalizeTableCloudQuery(c)
  \/ \E c \in CloseClients, k \in DOMAIN fsOrders : FinalizeTableCloudUpdate(c, k)
  \/ \E t \in Tables, items \in SessionItems, o \in Observations :
       CreateOrderCloud(t, items, o)
  \/ \E w \in writes : ApplyStockWrite(w)

SpecClose ==
  /\ InitMounted
  /\ [][NextClose]_vars
  /\ WF_vars(FetchTablesLocal)
  /\ WF_vars(DeliverTablesCloud)
  /\ WF_vars(\E c \in CloseClients : FinalizeTableCloudQuery(c))
  /\ WF_vars(\E c \in CloseClients, k \in DOMAIN fsOrders :
               FinalizeTableCloudUpdate(c, k))

\* C23: once requestTableClose and then finalizeTable have run for the
\* table of a view that stays subscribed, the view reaches 'session ended'
\* in the end.
C23_EndsAfterFinalize == (billing[tableId] = "finalized") ~> isSessionEnded

\* -------------------------------------- the view's table (SpecTable)
\* A mounted view is rendered for table 1 and later for table 2 (or back)
\* while bills are asked for and tables are finalized on its backend.
NextTable ==
  \/ \E t \in Tables : TableIdChanges(t)
  \/ ViewEffectLocal
  \/ ViewEffectCloud
  \/ FetchTablesLocal
  \/ DeliverTablesCloud
  \/ \E t \in Tables, pm \in PaymentMethods : RequestTableCloseLocal(t, pm)
  \/ \E t \in Tables, pm \in PaymentMethods : RequestTableCloseCloud(t, pm)
  \/ \E t \in Tables : FinalizeTableLocal(t)
  \/ \E c \in CloseClients, t \in Tables : FinalizeTableCloudDelete(c, t)
  \/ \E c \in CloseClients : FinalizeTableCloudQuery(c)

SpecTable == InitMounted /\ [][NextTable]_vars

\* C24: the view is in 'session ended' only if requestTableClose has run for
\* its table and finalizeTable has removed the table's session after that;
\* calls for other tables, orders, cancellations and snapshots without a
\* record for the table do not end it.
C24_EndedOnlyAfterFinalize ==
  isSessionEnded => billing[tableId] = "finalized"

\* ------------------------------- a merge racing an order (SpecRace)
\* Remote mode: one staff client saves products of one name, so that every
\* save after the first merges, while customers order the product; the
\* requests of the calls interleave at the server.
NextRace ==
  \/ \E c \in StockClients, product \in StockInputs :
       SaveProductCloudQuery(c, product)
  \/ \E c \in StockClients : SaveProductCloudWrite(c)
  \/ \E t \in StockTables,
        items \in ItemLists(CloudCatalog, DOMAIN fsProducts),
        o \in Observations :
       CreateOrderCloud(t, items, o)
  \/ \E w \in writes : ApplyStockWrite(w)

InitRace == Init /\ isCloud

SpecRace == InitRace /\ [][NextRace]_vars

\* C25: in remote mode the write of a merging save raises the stock the
\* product has at that moment by the incoming stock, so that a decrement an
\* order made since the save read the product is not lost: from S, a merge
\* of s and an order of q leave S + s - q.
C25_MergeKeepsDecrements ==
  [][ \A c \in StockClients :
        ( /\ SaveProductCloudWrite(c)
          /\ calls[c].existingDoc # Null
          /\ MapHas(fsProducts, calls[c].existingDoc[1].ref) )
        => LET ref == calls[c].existingDoc[1].ref
           IN  fsProducts'[ref].stock =
                 fsProducts[ref].stock + calls[c].product.stock ]_vars

\* ------------------------------------------------- the cart (SpecCart)
\* A customer fills the cart of a mounted view with the product the staff
\* keep saving under one id, with a price and a stock that change, edits
\* quantities and prices in the cart and places orders, on either backend.
CartIds     == {"5"}
CartStocks  == {0, 1}
CartInputs  == [id : CartIds, name : {"Suco"}, price : Prices, stock : CartStocks]
CartDeltas  == {-1, 1}
PriceInputs == {[isNaN |-> TRUE], [isNaN |-> FALSE, value |-> 1]}
CartClients == {"A"}

\* The products on offer a customer of this specification picks.
Offered ==
  {p \in products : p.name = "Suco"}

NextCart ==
  \/ Tick
  \/ FetchProductsLocal
  \/ DeliverProductsCloud
  \/ \E product \in CartInputs : SaveProductLocal(product)
  \/ \E c \in CartClients, product \in {p \in CartInputs : p.stock > 0} :
       SaveProductCloudQuery(c, product)
  \/ \E c \in CartClients : SaveProductCloudWrite(c)
  \/ \E product \in Offered : AddToCart(product)
  \/ \E i \in DOMAIN cart : RemoveFromCart(cart[i].id)
  \/ \E i \in DOMAIN cart, delta \in CartDeltas : UpdateQuantity(cart[i].id, delta)
  \/ \E i \in DOMAIN cart, newPrice \in PriceInputs :
       UpdateItemPrice(cart[i].id, newPrice)
  \/ PlaceOrderLocal
  \/ PlaceOrderCloud
  \/ \E w \in writes : ApplyStockWrite(w)

SpecCart == InitMounted /\ [][NextCart]_vars

\* The orders a step has added.
NewOrders == {o \in getOrdersOnce' : \A old \in getOrdersOnce : old.id # o.id}

\* C26: every line item of an order placed through the customer view
\* records the price the product has in the store when the order is created.
C26_OrderRecordsStorePrice ==
  [][ (PlaceOrderLocal \/ PlaceOrderCloud) =>
        \A o \in NewOrders : \A i \in DOMAIN o.items :
          \E p \in StoredProducts :
            p.id = o.items[i].productId /\ p.price = o.items[i].price ]_vars

\* The stock of a product as last delivered to the view: the view keeps the
\* products delivered with stock above zero.
DeliveredStock(productId) ==
  IF \E p \in products : p.id = productId
    THEN (CHOOSE p \in products : p.id = productId).stock
    ELSE 0

\* C30: every cart item has a quantity of at least 1, and addToCart and
\* updateQuantity do not raise the quantity of an item above the stock of its
\* product as last delivered to the view.
C30_CartWithinStock ==
  [][ /\ \A i \in DOMAIN cart' : cart'[i].quantity >= 1
      /\ ( (\E product \in products : AddToCart(product))
           \/ (\E i \in DOMAIN cart, delta \in CartDeltas :
                 UpdateQuantity(cart[i].id, delta)) )
         => \A i \in DOMAIN cart' :
              (i \notin DOMAIN cart \/ cart'[i].quantity > cart[i].quantity)
                => cart'[i].quantity <= DeliveredStock(cart'[i].id) ]_vars

\* ------------------------------------------- local order ids (SpecStockLocal)
\* The stored orders with the status of the one at position i set.
StatusSetAt(orders, i, status) ==
  [orders EXCEPT ![i].status = status]

\* C27: in local mode distinct stored orders have distinct ids, also when
\* two createOrder calls run in the same millisecond, so that
\* updateOrderStatus with the id of a stored order changes exactly that order.
C27_LocalOrderIdsDistinct ==
  ~isCloud =>
    /\ \A i, j \in DOMAIN LocalOrders :
         i # j => LocalOrders[i].id # LocalOrders[j].id
    /\ \A i \in DOMAIN LocalOrders :
         JSONparse(LocalUpdateOrderStatusOrders(
                     lsOrders, LocalOrders[i].id, CANCELED))
           = StatusSetAt(LocalOrders, i, CANCELED)

\* ------------------------------------- a rejected order write (SpecReject)
\* Remote mode: the staff save a product, customers order it, and the server
\* accepts or rejects the write of an order; stock requests arrive at any
\* later moment.
NextReject ==
  \/ \E c \in StockClients, product \in StockInputs :
       SaveProductCloudQuery(c, product)
  \/ \E c \in StockClients : SaveProductCloudWrite(c)
  \/ \E t \in StockTables,
        items \in ItemLists(CloudCatalog, DOMAIN fsProducts),
        o \in Observations :
       CreateOrderCloud(t, items, o)
  \/ \E t \in StockTables,
        items \in ItemLists(CloudCatalog, DOMAIN fsProducts),
        o \in Observations :
       CreateOrderCloudRejected(t, items, o)
  \/ \E w \in writes : ApplyStockWrite(w)

SpecReject == InitRace /\ [][NextReject]_vars

\* C29: in remote mode createOrder writes the order before it decrements any
\* stock: every stock request belongs to an order whose write the server
\* accepted, and a call whose order write is rejected fails towards its
\* caller with no stock request sent and no stock changed.
C29_OrderBeforeStock ==
  [][ /\ \A w \in writes' : w.order \in DOMAIN fsOrders'
      /\ \A t \in StockTables,
            items \in ItemLists(CloudCatalog, DOMAIN fsProducts),
            o \in Observations :
           CreateOrderCloudRejected(t, items, o)
             => /\ "createOrder" \in thrown'
                /\ writes' = writes
                /\ fsProducts' = fsProducts
                /\ fsOrders' = fsOrders ]_vars

\* A createOrder call has failed on its order write while the product it
\* asked for is in stock: no order is stored and no stock request is pending.
C29_Witness ==
  /\ "createOrder" \in thrown
  /\ DOMAIN fsOrders = {}
  /\ writes = {}
  /\ \E k \in DOMAIN fsProducts : fsProducts[k].stock > 0

\* ----------------------------------------------------- the bill (SpecBill)
\* Fault: the total counts the orders that were cancelled too.
RECURSIVE TotalConsumed_CountsCanceled(_)
TotalConsumed_CountsCanceled(orders) ==
  IF orders = {} THEN 0
  ELSE LET order == CHOOSE o \in orders : TRUE
       IN  order.total + TotalConsumed_CountsCanceled(orders \ {order})

\* ClientView totalConsumed: myOrders.reduce over the orders not CANCELED.
RECURSIVE TotalConsumed(_)
TotalConsumed(orders) ==
  IF orders = {} THEN 0
  ELSE LET order == CHOOSE o \in orders : TRUE
       IN  (IF order.status # CANCELED THEN order.total ELSE 0)
             + TotalConsumed(orders \ {order})

\* ClientView consumedItems, one entry of itemsMap: the quantity and the
\* total of a product over the lines of the orders not CANCELED.
RECURSIVE ConsumedEntry(_, _)
ConsumedEntry(orders, productId) ==
  IF orders = {} THEN [qty |-> 0, total |-> 0]
  ELSE LET order == CHOOSE o \in orders : TRUE
           rest  == ConsumedEntry(orders \ {order}, productId)
           lines == SelectSeq(order.items, LAMBDA l : l.productId = productId)
       IN  IF order.status # CANCELED
             THEN [qty   |-> rest.qty + QuantityOf(lines, productId),
                   total |-> rest.total + LineSum(lines)]
             ELSE rest

\* ClientView consumedItems: itemsMap, keyed by productId.  The name and the
\* price of an entry are those of the first line met, which depends on the
\* order of the list; they are left out with it.
ConsumedItems(orders) ==
  LET billed == {o \in orders : o.status # CANCELED}
      ids    == UNION {{o.items[i].productId : i \in DOMAIN o.items} :
                         o \in billed}
  IN  [id \in ids |-> ConsumedEntry(orders, id)]

\* The operations of SpecFinalize, with the view's orders subscription
\* handing the view the stored orders at any moment.
NextBill ==
  \/ NextFinalize
  \/ FetchOrdersLocal
  \/ DeliverOrdersCloud

SpecBill == InitMounted /\ [][NextBill]_vars

\* Every stored order of the table is PAID or CANCELED.
Settled(t) ==
  \A o \in getOrdersOnce : o.tableId = t => o.status \in {PAID, CANCELED}

\* The view holds what its orders callback makes of the orders now stored.
BillDelivered ==
  myOrders = OrdersCallback(getOrdersOnce, tableId)

\* C28: a completed finalizeTable(t) leaves every order of t PAID or
\* CANCELED, and once the view of t has been handed the orders stored then,
\* its bill is empty: the consumed total is 0 and there are no consumed
\* items, also when the table had CANCELED orders.
C28_EmptyBillAfterFinalize ==
  [][ /\ \A t \in Tables : FinalizeTableLocal(t) => Settled(t)'
      /\ \A c \in FinalizeClients, t \in Tables :
           (Completes(c) /\ calls[c].tableId = t) => Settled(t)'
      /\ (BillDelivered' /\ Settled(tableId)')
           => /\ TotalConsumed(myOrders') = 0
              /\ ConsumedItems(myOrders') = <<>> ]_vars

\* The table of the view has been finalized, one of its orders is PAID and
\* another was CANCELED before, and the view has been handed them.
C28_Witness ==
  /\ billing[tableId] = "finalized"
  /\ Quiet
  /\ Settled(tableId)
  /\ BillDelivered
  /\ \E o \in myOrders : o.status = CANCELED
  /\ \E o \in getOrdersOnce : o.tableId = tableId /\ o.status = PAID

====
